---------------------------- MODULE Spec2Model ----------------------------
(***************************************************************************)
(* A model of the crash pattern engine: the sequence matcher and the       *)
(* dynamic expander of pattern_engine.py, and the round processing, streak *)
(* history and alert cooldown of main.py.                                  *)
(*                                                                         *)
(* Python values are modelled as follows.  A str is a sequence of          *)
(* one-character strings.  A step's count is a tagged value (PyInt, PyStr, *)
(* PyNone).  A dict is a record with a field "keys", the set of the keys   *)
(* that are present, so that d.get(k, default) is modelled as written.  A  *)
(* call that can raise returns an outcome that says so.                    *)
(***************************************************************************)
EXTENDS Integers, Sequences, FiniteSets, TLC

(***************************************************************************)
(* Bounds of the model.  MAX_COLORS_BUFFER is 500 in main.py:43; it is     *)
(* scaled down here so that eviction happens within MaxRounds outcomes.    *)
(***************************************************************************)
MAX_COLORS_BUFFER == 4

MaxRounds == 6

MaxLen == 4

(***************************************************************************)
(* Program constants (main.py:45-47).                                      *)
(***************************************************************************)
DEFAULT_TRIGGER_THRESHOLD == 5

DEFAULT_MISS_THRESHOLD == 2

DEFAULT_COOLDOWN_ROUNDS == 1

(***************************************************************************)
(* Python values.                                                          *)
(***************************************************************************)
PyInt(k) == [t |-> "int", n |-> k, s |-> <<>>]

PyStr(chars) == [t |-> "str", n |-> 0, s |-> chars]

PyNone == [t |-> "none", n |-> 0, s |-> <<>>]

Digits == {"0", "1", "2", "3", "4", "5", "6", "7", "8", "9"}

DigitVal(c) ==
    CASE c = "0" -> 0 [] c = "1" -> 1 [] c = "2" -> 2 [] c = "3" -> 3
      [] c = "4" -> 4 [] c = "5" -> 5 [] c = "6" -> 6 [] c = "7" -> 7
      [] c = "8" -> 8 [] c = "9" -> 9

DigitChar(d) ==
    CASE d = 0 -> "0" [] d = 1 -> "1" [] d = 2 -> "2" [] d = 3 -> "3"
      [] d = 4 -> "4" [] d = 5 -> "5" [] d = 6 -> "6" [] d = 7 -> "7"
      [] d = 8 -> "8" [] d = 9 -> "9"

RECURSIVE LStrip(_)
LStrip(s) == IF s # <<>> /\ Head(s) = " " THEN LStrip(Tail(s)) ELSE s

RECURSIVE RStrip(_)
RStrip(s) ==
    IF s # <<>> /\ s[Len(s)] = " " THEN RStrip(SubSeq(s, 1, Len(s) - 1)) ELSE s

\* str.strip()
Strip(s) == RStrip(LStrip(s))

AllDigits(s) == s # <<>> /\ \A i \in 1..Len(s) : s[i] \in Digits

RECURSIVE DecValue(_)
DecValue(s) ==
    IF s = <<>> THEN 0
    ELSE 10 * DecValue(SubSeq(s, 1, Len(s) - 1)) + DigitVal(s[Len(s)])

RECURSIVE NatStr(_)
NatStr(k) ==
    IF k < 10 THEN <<DigitChar(k)>>
    ELSE NatStr(k \div 10) \o <<DigitChar(k % 10)>>

\* str(x) of an int
StrOfInt(k) == IF k < 0 THEN <<"-">> \o NatStr(0 - k) ELSE NatStr(k)

\* int(s) of a str: surrounding blanks, one optional sign, then digits;
\* anything else raises ValueError (ok = FALSE).
IntOfStr(s) ==
    LET u == Strip(s)
        signed == u # <<>> /\ Head(u) \in {"+", "-"}
        body == IF signed THEN Tail(u) ELSE u
    IN  IF AllDigits(body)
        THEN [ok |-> TRUE,
              n |-> IF signed /\ Head(u) = "-" THEN 0 - DecValue(body)
                    ELSE DecValue(body)]
        ELSE [ok |-> FALSE, n |-> 0]

(***************************************************************************)
(* pattern_engine.py: color groups.                                        *)
(***************************************************************************)
Colors == {"red", "green", "yellow"}

normalize_color(color, treat_yellow_as_green) ==
    IF treat_yellow_as_green /\ color = "yellow" THEN "green" ELSE color

\* color_matches_group that compares a literal name with the normalized
\* color only
color_matches_group_NormalizedOnly(color, group, treat_yellow_as_green) ==
    LET normalized == normalize_color(color, treat_yellow_as_green)
    IN  \E j \in 1..Len(group) :
            IF group[j] = "green_yellow"
            THEN normalized \in {"green", "yellow"} \/ color \in {"green", "yellow"}
            ELSE group[j] = normalized

\* color_matches_group where green_yellow takes a yellow outcome only as a
\* green one, that is, when the flag is set
color_matches_group_YellowByFlag(color, group, treat_yellow_as_green) ==
    LET normalized == normalize_color(color, treat_yellow_as_green)
    IN  \E j \in 1..Len(group) :
            IF group[j] = "green_yellow"
            THEN normalized = "green"
            ELSE group[j] = normalized \/ group[j] = color

color_matches_group(color, group, treat_yellow_as_green) ==
    LET normalized == normalize_color(color, treat_yellow_as_green)
    IN  \E j \in 1..Len(group) :
            IF group[j] = "green_yellow"
            THEN normalized \in {"green", "yellow"} \/ color \in {"green", "yellow"}
            ELSE group[j] = normalized \/ group[j] = color

(***************************************************************************)
(* pattern_engine.py: match_sequence.  The outcome is "True", "False" or   *)
(* "TypeError" (int() of a count that is neither a number nor a str).      *)
(***************************************************************************)
\* step.get('operator', 'minimum')
StepOperator(step) ==
    IF "operator" \in step.keys THEN step.operator ELSE "minimum"

\* step.get('count', 1)
StepCountSpec(step) == IF "count" \in step.keys THEN step.count ELSE PyInt(1)

\* step.get('colors', [])
StepColors(step) == IF "colors" \in step.keys THEN step.colors ELSE <<>>

\* lines 56-62: the count as an int; "false" is the early return of line 60,
\* "raise" the uncaught exception of line 62.
ResolveCount(count_spec) ==
    IF count_spec.t = "str"
    THEN IF IntOfStr(count_spec.s).ok
         THEN [r |-> "ok", n |-> IntOfStr(count_spec.s).n]
         ELSE [r |-> "false", n |-> 0]
    ELSE IF count_spec.t \in {"int", "bool", "float"}
         THEN [r |-> "ok", n |-> count_spec.n]
         ELSE [r |-> "raise", n |-> 0]

\* Consume that takes one outcome at most
Consume_OneOutcome(colors, i, group, tyag) ==
    IF i >= 1 /\ color_matches_group(colors[i], group, tyag) THEN 1 ELSE 0

\* lines 65-67: how many outcomes the while loop consumes from cursor i back
RECURSIVE Consume(_, _, _, _)
Consume(colors, i, group, tyag) ==
    IF i >= 1 /\ color_matches_group(colors[i], group, tyag)
    THEN 1 + Consume(colors, i - 1, group, tyag)
    ELSE 0

\* OperatorHolds with exact checked as minimum
OperatorHolds_ExactAsMinimum(operator, matched, count) ==
    CASE operator = "exact" -> matched >= count
      [] operator = "minimum" -> matched >= count
      [] operator = "maximum" -> matched <= count
      [] OTHER -> TRUE

OperatorHolds(operator, matched, count) ==
    CASE operator = "exact" -> matched = count
      [] operator = "minimum" -> matched >= count
      [] operator = "maximum" -> matched <= count
      [] OTHER -> TRUE

\* lines 48-79: the loop over reversed(sequence); k is the step being
\* checked, i the cursor (1-based, 0 when the buffer is used up).
\* MatchLoop without the test of line 49: a step checked at the start of
\* the buffer consumes nothing and is judged by its operator
RECURSIVE MatchLoop_NoEndTest(_, _, _, _, _)
MatchLoop_NoEndTest(colors, sequence, tyag, k, i) ==
    IF k = 0 THEN "True"
    ELSE LET step == sequence[k]
             cnt == ResolveCount(StepCountSpec(step))
             matched == Consume(colors, i, StepColors(step), tyag)
         IN  IF cnt.r = "false" THEN "False"
             ELSE IF cnt.r = "raise" THEN "TypeError"
             ELSE IF ~OperatorHolds(StepOperator(step), matched, cnt.n)
                  THEN "False"
                  ELSE MatchLoop_NoEndTest(colors, sequence, tyag, k - 1, i - matched)

RECURSIVE MatchLoop(_, _, _, _, _)
MatchLoop(colors, sequence, tyag, k, i) ==
    IF k = 0 THEN "True"
    ELSE IF i < 1 THEN "False"
    ELSE LET step == sequence[k]
             cnt == ResolveCount(StepCountSpec(step))
             matched == Consume(colors, i, StepColors(step), tyag)
         IN  IF cnt.r = "false" THEN "False"
             ELSE IF cnt.r = "raise" THEN "TypeError"
             ELSE IF ~OperatorHolds(StepOperator(step), matched, cnt.n)
                  THEN "False"
                  ELSE MatchLoop(colors, sequence, tyag, k - 1, i - matched)

match_sequence(colors, sequence, treat_yellow_as_green) ==
    IF colors = <<>> \/ sequence = <<>> THEN "False"
    ELSE MatchLoop(colors, sequence, treat_yellow_as_green,
                   Len(sequence), Len(colors))

(***************************************************************************)
(* pattern_engine.py: _replace_x_expr and expand_dynamic_pattern.          *)
(***************************************************************************)
ContainsX(s) == \E i \in 1..(Len(s) - 1) : s[i] = "$" /\ s[i + 1] = "X"

\* value.replace('$X', rep)
RECURSIVE ReplaceX(_, _)
ReplaceX(s, rep) ==
    IF s = <<>> THEN <<>>
    ELSE IF Len(s) >= 2 /\ s[1] = "$" /\ s[2] = "X"
         THEN rep \o ReplaceX(SubSeq(s, 3, Len(s)), rep)
         ELSE <<Head(s)>> \o ReplaceX(Tail(s), rep)

\* A decimal literal of Python 3: no leading zero unless it is all zeros.
ValidLiteral(d) ==
    Len(d) = 1 \/ d[1] # "0" \/ \A i \in 1..Len(d) : d[i] = "0"

\* eval(expr) of a text of digits, '+', '-' and blanks: a sum of signed
\* decimal literals.  mode is "operand" (a literal or a unary sign is
\* expected), "innum" (inside the literal cur) or "afternum" (a literal is
\* finished and an operator or the end is expected).  ok = FALSE models
\* SyntaxError.
RECURSIVE EvalScan(_, _, _, _, _, _)
EvalScan(s, i, acc, sign, mode, cur) ==
    IF i > Len(s)
    THEN CASE mode = "innum" ->
                  IF ValidLiteral(cur)
                  THEN [ok |-> TRUE, n |-> acc + sign * DecValue(cur)]
                  ELSE [ok |-> FALSE, n |-> 0]
           [] mode = "afternum" -> [ok |-> TRUE, n |-> acc]
           [] OTHER -> [ok |-> FALSE, n |-> 0]
    ELSE LET c == s[i]
         IN  CASE mode = "operand" ->
                      IF c = " " THEN EvalScan(s, i + 1, acc, sign, mode, cur)
                      ELSE IF c = "+" THEN EvalScan(s, i + 1, acc, sign, mode, cur)
                      ELSE IF c = "-" THEN EvalScan(s, i + 1, acc, 0 - sign, mode, cur)
                      ELSE EvalScan(s, i + 1, acc, sign, "innum", <<c>>)
               [] mode = "innum" ->
                      IF c \in Digits
                      THEN EvalScan(s, i + 1, acc, sign, mode, Append(cur, c))
                      ELSE IF ~ValidLiteral(cur) THEN [ok |-> FALSE, n |-> 0]
                      ELSE IF c = " "
                           THEN EvalScan(s, i + 1, acc + sign * DecValue(cur),
                                         1, "afternum", <<>>)
                           ELSE EvalScan(s, i + 1, acc + sign * DecValue(cur),
                                         IF c = "-" THEN 0 - 1 ELSE 1,
                                         "operand", <<>>)
               [] OTHER ->
                      IF c = " " THEN EvalScan(s, i + 1, acc, sign, mode, cur)
                      ELSE IF c \in Digits THEN [ok |-> FALSE, n |-> 0]
                      ELSE EvalScan(s, i + 1, acc, IF c = "-" THEN 0 - 1 ELSE 1,
                                    "operand", <<>>)

PyEval(expr) == EvalScan(expr, 1, 0, 1, "operand", <<>>)

AllowedExprChars == Digits \cup {"+", "-", " "}

replace_x_expr(value, x) ==
    IF value.t # "str" THEN value
    ELSE IF ~ContainsX(value.s) THEN value
    ELSE LET expr == Strip(ReplaceX(value.s, StrOfInt(x)))
         IN  IF \E i \in 1..Len(expr) : expr[i] \notin AllowedExprChars
             THEN value
             ELSE IF PyEval(expr).ok THEN PyInt(PyEval(expr).n) ELSE value

\* lines 93-99: step['count'] = self._replace_x_expr(step.get('count'), x)
ExpandStep(step, x) ==
    [step EXCEPT !.keys = @ \cup {"count"},
                 !.count = replace_x_expr(
                     IF "count" \in step.keys THEN step.count ELSE PyNone, x)]

ExpandSteps(steps, x) == [j \in 1..Len(steps) |-> ExpandStep(steps[j], x)]

DefaultDynamicValues == <<3, 4, 5, 6, 7, 8>>

\* ExpandOne that resolves the counts of the trigger steps only
ExpandOne_TriggerOnly(pattern_rule, x) ==
    [pattern_rule EXCEPT
        !.keys = @ \cup {"name", "dynamic_x"},
        !.name = pattern_rule.name \o <<" ", "(", "X", "=">> \o StrOfInt(x) \o <<")">>,
        !.dynamic_x = x,
        !.trigger = IF "trigger" \in pattern_rule.keys
                    THEN ExpandSteps(pattern_rule.trigger, x) ELSE @]

\* lines 88-101: the sub-rule for one value x
ExpandOne(pattern_rule, x) ==
    [pattern_rule EXCEPT
        !.keys = @ \cup {"name", "dynamic_x"},
        !.name = pattern_rule.name \o <<" ", "(", "X", "=">> \o StrOfInt(x) \o <<")">>,
        !.dynamic_x = x,
        !.trigger = IF "trigger" \in pattern_rule.keys
                    THEN ExpandSteps(pattern_rule.trigger, x) ELSE @,
        !.miss = IF "miss" \in pattern_rule.keys
                 THEN ExpandSteps(pattern_rule.miss, x) ELSE @]

RuleType(rule) == IF "type" \in rule.keys THEN rule.type ELSE "<none>"

\* the template when one pass of the loop wrote to a copy that shares the
\* step objects with it (a copy of the outer dict only)
TemplateAfterWrites_SharedSteps(template, x) ==
    [template EXCEPT !.trigger = ExpandOne(template, x).trigger,
                     !.miss = ExpandOne(template, x).miss]

\* lines 89-99: the object passed in after one pass of the loop.  new_rule
\* is json.loads(json.dumps(pattern_rule)), which shares no dict and no list
\* with pattern_rule, and every assignment of the pass is to new_rule or to
\* a step of new_rule.
TemplateAfterWrites(template, x) == template

RECURSIVE TemplateAfterLoop(_, _, _)
TemplateAfterLoop(template, dynamic_values, j) ==
    IF j > Len(dynamic_values) THEN template
    ELSE TemplateAfterLoop(TemplateAfterWrites(template, dynamic_values[j]),
                           dynamic_values, j + 1)

\* the object passed to expand_dynamic_pattern when the call has returned
TemplateAfter(pattern_rule) ==
    IF RuleType(pattern_rule) # "dynamic" THEN pattern_rule
    ELSE TemplateAfterLoop(pattern_rule,
                           IF "dynamic_values" \in pattern_rule.keys
                           THEN pattern_rule.dynamic_values
                           ELSE DefaultDynamicValues, 1)

expand_dynamic_pattern(pattern_rule) ==
    IF RuleType(pattern_rule) # "dynamic" THEN <<pattern_rule>>
    ELSE LET dynamic_values == IF "dynamic_values" \in pattern_rule.keys
                               THEN pattern_rule.dynamic_values
                               ELSE DefaultDynamicValues
         IN  [j \in 1..Len(dynamic_values) |->
                 ExpandOne(pattern_rule, dynamic_values[j])]

(***************************************************************************)
(* pattern_engine.py: check_pattern and process_round.                     *)
(***************************************************************************)
\* pattern_rule.get('trigger', {}).get('steps', [])
RuleSteps(rule, path) ==
    IF path \in rule.keys THEN rule[path] ELSE <<>>

check_pattern(colors, pattern_rule) ==
    LET tyag == IF "treat_yellow_as_green" \in pattern_rule.keys
                THEN pattern_rule.treat_yellow_as_green ELSE TRUE
    IN  [trigger |-> match_sequence(colors, RuleSteps(pattern_rule, "trigger"), tyag),
         miss |-> match_sequence(colors, RuleSteps(pattern_rule, "miss"), tyag)]

CheckRaises(check) == check.trigger = "TypeError" \/ check.miss = "TypeError"

ZeroStat ==
    [trigger_streak |-> 0, miss_streak |-> 0, total_triggers |-> 0,
     total_misses |-> 0, longest_trigger_streak |-> 0, longest_miss_streak |-> 0]

\* UpdateStat with a miss that leaves trigger_streak as it is
UpdateStat_KeepsOther(stat, check) ==
    IF check.trigger = "True"
    THEN [stat EXCEPT
            !.trigger_streak = @ + 1,
            !.miss_streak = 0,
            !.total_triggers = @ + 1,
            !.longest_trigger_streak =
                IF stat.trigger_streak + 1 > @ THEN stat.trigger_streak + 1 ELSE @]
    ELSE IF check.miss = "True"
    THEN [stat EXCEPT
            !.miss_streak = @ + 1,
            !.total_misses = @ + 1,
            !.longest_miss_streak =
                IF stat.miss_streak + 1 > @ THEN stat.miss_streak + 1 ELSE @]
    ELSE stat

\* UpdateStat with a longest trigger streak that is compared with the streak
\* before the increment
UpdateStat_StaleLongest(stat, check) ==
    IF check.trigger = "True"
    THEN [stat EXCEPT
            !.trigger_streak = @ + 1,
            !.miss_streak = 0,
            !.total_triggers = @ + 1,
            !.longest_trigger_streak =
                IF stat.trigger_streak > @ THEN stat.trigger_streak ELSE @]
    ELSE IF check.miss = "True"
    THEN [stat EXCEPT
            !.miss_streak = @ + 1,
            !.trigger_streak = 0,
            !.total_misses = @ + 1,
            !.longest_miss_streak =
                IF stat.miss_streak + 1 > @ THEN stat.miss_streak + 1 ELSE @]
    ELSE stat

\* UpdateStat with a round without event that ends both streaks
UpdateStat_ResetOnNone(stat, check) ==
    IF check.trigger = "True"
    THEN [stat EXCEPT
            !.trigger_streak = @ + 1,
            !.miss_streak = 0,
            !.total_triggers = @ + 1,
            !.longest_trigger_streak =
                IF stat.trigger_streak + 1 > @ THEN stat.trigger_streak + 1 ELSE @]
    ELSE IF check.miss = "True"
    THEN [stat EXCEPT
            !.miss_streak = @ + 1,
            !.trigger_streak = 0,
            !.total_misses = @ + 1,
            !.longest_miss_streak =
                IF stat.miss_streak + 1 > @ THEN stat.miss_streak + 1 ELSE @]
    ELSE [stat EXCEPT !.trigger_streak = 0, !.miss_streak = 0]

\* UpdateStat with totals that count the streaks begun, not the events
UpdateStat_CountsStreaks(stat, check) ==
    IF check.trigger = "True"
    THEN [stat EXCEPT
            !.trigger_streak = @ + 1,
            !.miss_streak = 0,
            !.total_triggers = IF stat.trigger_streak = 0 THEN @ + 1 ELSE @,
            !.longest_trigger_streak =
                IF stat.trigger_streak + 1 > @ THEN stat.trigger_streak + 1 ELSE @]
    ELSE IF check.miss = "True"
    THEN [stat EXCEPT
            !.miss_streak = @ + 1,
            !.trigger_streak = 0,
            !.total_misses = IF stat.miss_streak = 0 THEN @ + 1 ELSE @,
            !.longest_miss_streak =
                IF stat.miss_streak + 1 > @ THEN stat.miss_streak + 1 ELSE @]
    ELSE stat

\* lines 137-162: the update of one rule's stat for a check that did not raise
UpdateStat(stat, check) ==
    IF check.trigger = "True"
    THEN [stat EXCEPT
            !.trigger_streak = @ + 1,
            !.miss_streak = 0,
            !.total_triggers = @ + 1,
            !.longest_trigger_streak =
                IF stat.trigger_streak + 1 > @ THEN stat.trigger_streak + 1 ELSE @]
    ELSE IF check.miss = "True"
    THEN [stat EXCEPT
            !.miss_streak = @ + 1,
            !.trigger_streak = 0,
            !.total_misses = @ + 1,
            !.longest_miss_streak =
                IF stat.miss_streak + 1 > @ THEN stat.miss_streak + 1 ELSE @]
    ELSE stat

EventOf(check) ==
    IF check.trigger = "True" THEN "trigger"
    ELSE IF check.miss = "True" THEN "miss" ELSE "none"

\* pattern_stats.get(pattern_id, {...zeros...})
StatOf(pattern_stats, pattern_id) ==
    IF pattern_id \in DOMAIN pattern_stats THEN pattern_stats[pattern_id]
    ELSE ZeroStat

\* pattern_stats[pattern_id] = stat
PutStat(pattern_stats, pattern_id, stat) ==
    [k \in (DOMAIN pattern_stats) \cup {pattern_id} |->
        IF k = pattern_id THEN stat ELSE pattern_stats[k]]

RuleActive(rule) == IF "active" \in rule.keys THEN rule.active ELSE TRUE

\* lines 122-166: the loop over self.patterns from entry j on.  acc holds the
\* stats mapping, the results list, whether a check raised, and steps: one
\* entry per evaluated rule with its stat before and after (the history of
\* the loop, kept for the properties).
RECURSIVE ProcessLoop(_, _, _, _)
ProcessLoop(colors, patterns, j, acc) ==
    IF j > Len(patterns) THEN acc
    ELSE LET pattern_id == patterns[j][1]
             rule == patterns[j][2]
             stat == StatOf(acc.stats, pattern_id)
             check == check_pattern(colors, rule)
             new == UpdateStat(stat, check)
         IN  IF ~RuleActive(rule) THEN ProcessLoop(colors, patterns, j + 1, acc)
             ELSE IF CheckRaises(check) THEN [acc EXCEPT !.raised = TRUE]
             ELSE ProcessLoop(colors, patterns, j + 1,
                    [stats |-> PutStat(acc.stats, pattern_id, new),
                     results |->
                        IF EventOf(check) = "none" THEN acc.results
                        ELSE Append(acc.results,
                               [pattern_id |-> pattern_id,
                                event |-> EventOf(check),
                                streak |-> IF EventOf(check) = "trigger"
                                           THEN new.trigger_streak
                                           ELSE new.miss_streak,
                                stats |-> new]),
                     raised |-> FALSE,
                     steps |-> Append(acc.steps,
                                 [pattern_id |-> pattern_id,
                                  event |-> EventOf(check),
                                  before |-> stat, after |-> new])])

process_round(colors, patterns, pattern_stats) ==
    ProcessLoop(colors, patterns, 1,
                [stats |-> pattern_stats, results |-> <<>>, raised |-> FALSE,
                 steps |-> <<>>])

(***************************************************************************)
(* main.py: rule keys.  A key is the text str(p.id) of a static rule or    *)
(* f"{p.id}:X={x}" of a sub-rule.                                          *)
(***************************************************************************)
SubKey(x) == <<"X", "=">> \o StrOfInt(x)

StaticKey(id) == StrOfInt(id)

DynamicKey(id, sub_key) == StrOfInt(id) \o <<":">> \o sub_key

HasChar(s, c) == \E i \in 1..Len(s) : s[i] = c

FirstIndex(s, c) == CHOOSE i \in 1..Len(s) : s[i] = c /\ \A j \in 1..(i - 1) : s[j] # c

\* pid_str.split(':', 1)[0] and [1]
BeforeColon(s) == SubSeq(s, 1, FirstIndex(s, ":") - 1)

AfterColon(s) == SubSeq(s, FirstIndex(s, ":") + 1, Len(s))

\* int(pid_str.split(':', 1)[0]) if ':' in pid_str else int(pid_str)
\* (no key holds a '_')
BasePatternId(pid_str) ==
    IF HasChar(pid_str, ":") THEN IntOfStr(BeforeColon(pid_str)).n
    ELSE IntOfStr(pid_str).n

(***************************************************************************)
(* main.py: load_patterns_to_engine.  tbl is the patterns table (id ->     *)
(* row), read in id order; stats the pattern_stats rows (pattern id ->     *)
(* stat), sub the pattern_sub_stats rows (<<pattern id, sub key>> -> stat).*)
(***************************************************************************)
RECURSIVE SortedIds(_)
SortedIds(ids) ==
    IF ids = {} THEN <<>>
    ELSE LET m == CHOOSE i \in ids : \A j \in ids : i <= j
         IN  <<m>> \o SortedIds(ids \ {m})

\* Pattern.query.filter_by(active=True).all()
ActiveIds(tbl) == SortedIds({id \in DOMAIN tbl : tbl[id].active})

\* lines 291-302: the engine entries of one stored pattern
EngineEntries(id, row) ==
    LET rule == [row.rule EXCEPT !.keys = @ \cup {"active", "priority"},
                                 !.active = row.active,
                                 !.priority = row.priority]
    IN  IF RuleType(rule) = "dynamic"
        THEN LET expanded == expand_dynamic_pattern(rule)
             IN  [j \in 1..Len(expanded) |->
                     <<DynamicKey(id, SubKey(expanded[j].dynamic_x)), expanded[j]>>]
        ELSE <<<<StaticKey(id), rule>>>>

RECURSIVE EngineList(_, _, _)
EngineList(tbl, ids, j) ==
    IF j > Len(ids) THEN <<>>
    ELSE EngineEntries(ids[j], tbl[ids[j]]) \o EngineList(tbl, ids, j + 1)

\* the sub keys of a dynamic pattern, in expansion order
SubKeysOf(rule) ==
    LET expanded == expand_dynamic_pattern(rule)
    IN  {SubKey(expanded[j].dynamic_x) : j \in 1..Len(expanded)}

\* lines 314-318: the pattern_sub_stats rows after the missing ones are added
SubStatsAfterLoad(tbl, sub) ==
    LET needed == {<<id, sk>> \in
                      UNION {{<<i, s>> : s \in SubKeysOf(tbl[i].rule)} :
                             i \in {a \in DOMAIN tbl :
                                      tbl[a].active /\ RuleType(tbl[a].rule) = "dynamic"}} :
                      TRUE}
    IN  [r \in (DOMAIN sub) \cup needed |->
            IF r \in DOMAIN sub THEN sub[r] ELSE ZeroStat]

\* lines 306-336: pattern_stats_cache after the reload
CacheAfterLoad(tbl, stats, sub) ==
    LET act == {a \in DOMAIN tbl : tbl[a].active}
        dyn == {a \in act : RuleType(tbl[a].rule) = "dynamic"}
        sub2 == SubStatsAfterLoad(tbl, sub)
        dkeys == UNION {{DynamicKey(i, s) : s \in SubKeysOf(tbl[i].rule)} : i \in dyn}
        skeys == {StaticKey(i) : i \in {a \in act \ dyn : a \in DOMAIN stats}}
    IN  [k \in dkeys \cup skeys |->
            IF HasChar(k, ":") THEN sub2[<<BasePatternId(k), AfterColon(k)>>]
            ELSE stats[BasePatternId(k)]]

(***************************************************************************)
(* main.py: check_and_fire_alert.                                          *)
(***************************************************************************)
\* rule.get('alerts', {}).get(name, default)
AlertSetting(rule, name, default) ==
    IF "alerts" \in rule.keys /\ name \in rule.alerts.keys
    THEN rule.alerts[name] ELSE default

AlertType(event_type) == IF event_type = "trigger" THEN "trigger_streak" ELSE "miss_streak"

\* ShouldAlert with strict comparisons
ShouldAlert_Strict(event_type, streak, rule) ==
    \/ /\ event_type = "trigger"
       /\ streak > AlertSetting(rule, "trigger_streak_threshold", DEFAULT_TRIGGER_THRESHOLD)
    \/ /\ event_type = "miss"
       /\ streak > AlertSetting(rule, "miss_threshold", DEFAULT_MISS_THRESHOLD)

\* lines 376-385
ShouldAlert(event_type, streak, rule) ==
    \/ /\ event_type = "trigger"
       /\ streak >= AlertSetting(rule, "trigger_streak_threshold", DEFAULT_TRIGGER_THRESHOLD)
    \/ /\ event_type = "miss"
       /\ streak >= AlertSetting(rule, "miss_threshold", DEFAULT_MISS_THRESHOLD)

\* f"{pattern_id}_{alert_type}"
CooldownKey(pattern_id, alert_type) == pattern_id \o <<"_", alert_type>>

\* lines 387-393: TRUE when the outstanding cooldown suppresses the alert
Suppressed(cooldowns, cooldown_key) ==
    cooldown_key \in DOMAIN cooldowns /\ cooldowns[cooldown_key] > 0

PutCooldown(cooldowns, cooldown_key, v) ==
    [k \in (DOMAIN cooldowns) \cup {cooldown_key} |->
        IF k = cooldown_key THEN v ELSE cooldowns[k]]

\* check_and_fire_alert with a suppressed alert that leaves the counter as
\* it is
check_and_fire_alert_NoDecrement(cooldowns, pattern_id, pattern_name, event_type, streak, round_number, rule) ==
    LET alert_type == AlertType(event_type)
        cooldown == AlertSetting(rule, "cooldown_rounds", DEFAULT_COOLDOWN_ROUNDS)
        cooldown_key == CooldownKey(pattern_id, alert_type)
        none == [pattern_id |-> pattern_id, pattern_name |-> pattern_name,
                 event |-> alert_type, streak |-> streak, round |-> round_number]
    IN  IF ~ShouldAlert(event_type, streak, rule)
        THEN [cooldowns |-> cooldowns, eligible |-> FALSE, fired |-> FALSE,
              alert |-> none]
        ELSE IF Suppressed(cooldowns, cooldown_key)
        THEN [cooldowns |-> PutCooldown(cooldowns, cooldown_key,
                                        cooldowns[cooldown_key]),
              eligible |-> TRUE, fired |-> FALSE, alert |-> none]
        ELSE [cooldowns |-> PutCooldown(cooldowns, cooldown_key, cooldown),
              eligible |-> TRUE, fired |-> TRUE, alert |-> none]

\* check_and_fire_alert with an alert that starts its cooldown in an empty
\* cache
check_and_fire_alert_ClearsOthers(cooldowns, pattern_id, pattern_name, event_type, streak, round_number, rule) ==
    LET alert_type == AlertType(event_type)
        cooldown == AlertSetting(rule, "cooldown_rounds", DEFAULT_COOLDOWN_ROUNDS)
        cooldown_key == CooldownKey(pattern_id, alert_type)
        none == [pattern_id |-> pattern_id, pattern_name |-> pattern_name,
                 event |-> alert_type, streak |-> streak, round |-> round_number]
    IN  IF ~ShouldAlert(event_type, streak, rule)
        THEN [cooldowns |-> cooldowns, eligible |-> FALSE, fired |-> FALSE,
              alert |-> none]
        ELSE IF Suppressed(cooldowns, cooldown_key)
        THEN [cooldowns |-> PutCooldown(cooldowns, cooldown_key,
                                        cooldowns[cooldown_key] - 1),
              eligible |-> TRUE, fired |-> FALSE, alert |-> none]
        ELSE [cooldowns |-> [k \in {cooldown_key} |-> cooldown],
              eligible |-> TRUE, fired |-> TRUE, alert |-> none]

\* The outcome of one call: the cooldown cache after it, and the alert
\* (fired = FALSE stands for the return of None).
check_and_fire_alert(cooldowns, pattern_id, pattern_name, event_type, streak, round_number, rule) ==
    LET alert_type == AlertType(event_type)
        cooldown == AlertSetting(rule, "cooldown_rounds", DEFAULT_COOLDOWN_ROUNDS)
        cooldown_key == CooldownKey(pattern_id, alert_type)
        none == [pattern_id |-> pattern_id, pattern_name |-> pattern_name,
                 event |-> alert_type, streak |-> streak, round |-> round_number]
    IN  IF ~ShouldAlert(event_type, streak, rule)
        THEN [cooldowns |-> cooldowns, eligible |-> FALSE, fired |-> FALSE,
              alert |-> none]
        ELSE IF Suppressed(cooldowns, cooldown_key)
        THEN [cooldowns |-> PutCooldown(cooldowns, cooldown_key,
                                        cooldowns[cooldown_key] - 1),
              eligible |-> TRUE, fired |-> FALSE, alert |-> none]
        ELSE [cooldowns |-> PutCooldown(cooldowns, cooldown_key, cooldown),
              eligible |-> TRUE, fired |-> TRUE, alert |-> none]

(***************************************************************************)
(* main.py: save_streak_history and the body of process_round_patterns.    *)
(* A round identity is modelled by the number of the round (the code uses  *)
(* the text "R<milliseconds>"), and the empty text '' by 0.                *)
(***************************************************************************)
\* sequence[-streak_length:] if len(sequence) >= streak_length else sequence
LastPortion(sequence, streak_length) ==
    IF Len(sequence) >= streak_length
    THEN SubSeq(sequence, Len(sequence) - streak_length + 1, Len(sequence))
    ELSE sequence

\* lines 428-452: the rows added by one call (none below the floor of 2)
save_streak_history(pattern_id, streak_type, streak_length, start_round, end_round, sequence, sub_pattern_key) ==
    IF streak_length < 2 THEN {}
    ELSE {[pattern_key |-> pattern_id,
           pattern_id |-> BasePatternId(pattern_id),
           streak_type |-> streak_type,
           streak_length |-> streak_length,
           sub_pattern_key |-> sub_pattern_key,
           start_round |-> start_round,
           end_round |-> end_round,
           sequence |-> LastPortion(sequence, streak_length)]}

\* lines 477 and 482: the test that a streak ended
StreakEnded(prev_streak, current_streak) ==
    prev_streak > 1 /\ current_streak < prev_streak

\* lines 466-485 for one key and one kind
HistoryOf(pattern_key, kind, prev_stats, current_stat, colors, rounds) ==
    LET field == IF kind = "trigger" THEN "trigger_streak" ELSE "miss_streak"
        prev_streak == StatOf(prev_stats, pattern_key)[field]
        sub_key == IF HasChar(pattern_key, ":") THEN AfterColon(pattern_key) ELSE <<>>
    IN  IF StreakEnded(prev_streak, current_stat[field])
        THEN save_streak_history(pattern_key, kind, prev_streak,
                 IF Len(rounds) > prev_streak THEN rounds[Len(rounds) - prev_streak] ELSE 0,
                 IF Len(rounds) > 1 THEN rounds[Len(rounds) - 1] ELSE 0,
                 colors, sub_key)
        ELSE {}

HistoryRecords(prev_stats, cache, colors, rounds) ==
    UNION {HistoryOf(k, "trigger", prev_stats, cache[k], colors, rounds)
             \cup HistoryOf(k, "miss", prev_stats, cache[k], colors, rounds) :
           k \in DOMAIN cache}

\* lines 493-511: the stats rows after the results are written, in order
RECURSIVE PersistStats(_, _, _)
PersistStats(results, j, stats) ==
    IF j > Len(results) THEN stats
    ELSE LET pid_str == results[j].pattern_id
             base_id == BasePatternId(pid_str)
         IN  PersistStats(results, j + 1,
                IF ~HasChar(pid_str, ":") /\ base_id \in DOMAIN stats
                THEN [stats EXCEPT ![base_id] = results[j].stats]
                ELSE stats)

RECURSIVE PersistSubStats(_, _, _)
PersistSubStats(results, j, sub) ==
    IF j > Len(results) THEN sub
    ELSE LET pid_str == results[j].pattern_id
             row == <<BasePatternId(pid_str), AfterColon(pid_str)>>
         IN  PersistSubStats(results, j + 1,
                IF HasChar(pid_str, ":") /\ row \in DOMAIN sub
                THEN [sub EXCEPT ![row] = results[j].stats]
                ELSE sub)

\* lines 513-518: the alert evaluations of the results, in order.  evals has
\* one entry per call of check_and_fire_alert.
RECURSIVE AlertLoop(_, _, _, _, _)
AlertLoop(results, j, tbl, round_number, acc) ==
    IF j > Len(results) THEN acc
    ELSE LET pattern_key == results[j].pattern_id
             base_id == BasePatternId(pattern_key)
             stat == results[j].stats
             streak == IF results[j].event = "trigger" THEN stat.trigger_streak
                       ELSE stat.miss_streak
             out == check_and_fire_alert(acc.cooldowns, pattern_key,
                        tbl[base_id].name, results[j].event, streak,
                        round_number, tbl[base_id].rule)
         IN  IF base_id \notin DOMAIN tbl
             THEN AlertLoop(results, j + 1, tbl, round_number, acc)
             ELSE AlertLoop(results, j + 1, tbl, round_number,
                    [cooldowns |-> out.cooldowns,
                     alerts |-> IF out.fired THEN Append(acc.alerts, out.alert)
                                ELSE acc.alerts,
                     evals |-> Append(acc.evals,
                                 [pattern_id |-> pattern_key,
                                  event |-> results[j].event,
                                  streak |-> streak,
                                  eligible |-> out.eligible,
                                  fired |-> out.fired,
                                  before |-> acc.cooldowns,
                                  after |-> out.cooldowns,
                                  cooldown |-> AlertSetting(tbl[base_id].rule,
                                      "cooldown_rounds", DEFAULT_COOLDOWN_ROUNDS)])])

\* models.py: get_color_from_value with the default thresholds (2.0, 10.0)
get_color_from_value(value) ==
    IF value < 2 THEN "red" ELSE IF value < 10 THEN "green" ELSE "yellow"

(***************************************************************************)
(* The stored rules the model starts from.  Every rule below is accepted   *)
(* by _validate_rule_json.                                                 *)
(***************************************************************************)
Step(colors, operator, count) ==
    [keys |-> {"colors", "operator", "count"}, colors |-> colors,
     operator |-> operator, count |-> count]

\* a step without a 'count' key
StepNoCount(colors, operator) ==
    [keys |-> {"colors", "operator"}, colors |-> colors,
     operator |-> operator, count |-> PyNone]

NoAlerts ==
    [keys |-> {}, trigger_streak_threshold |-> 0, miss_threshold |-> 0,
     cooldown_rounds |-> 0]

Alerts(t, m, c) ==
    [keys |-> {"trigger_streak_threshold", "miss_threshold", "cooldown_rounds"},
     trigger_streak_threshold |-> t, miss_threshold |-> m, cooldown_rounds |-> c]

StaticRule(name, tyag, trigger, miss) ==
    [keys |-> {"type", "name", "treat_yellow_as_green", "trigger", "miss"},
     type |-> "static", name |-> name, treat_yellow_as_green |-> tyag,
     trigger |-> trigger, miss |-> miss, dynamic_values |-> <<>>,
     alerts |-> NoAlerts, active |-> TRUE, priority |-> 0, dynamic_x |-> 0]

DynamicRule(name, tyag, trigger, miss, values) ==
    [StaticRule(name, tyag, trigger, miss) EXCEPT
        !.keys = @ \cup {"dynamic_values"}, !.type = "dynamic",
        !.dynamic_values = values]

WithAlerts(rule, alerts) ==
    [rule EXCEPT !.keys = @ \cup {"alerts"}, !.alerts = alerts]

XMinus(k) == PyStr(<<"$", "X", "-">> \o StrOfInt(k))

\* red is a trigger, green or yellow a miss: an event in every round
RuleEvery ==
    StaticRule(<<"A">>, TRUE,
               <<Step(<<"red">>, "minimum", PyInt(1))>>,
               <<Step(<<"green_yellow">>, "minimum", PyInt(1))>>)

\* exactly one red is a trigger, yellow a miss, green neither
RuleGaps ==
    StaticRule(<<"B">>, FALSE,
               <<Step(<<"red">>, "exact", PyInt(1))>>,
               <<Step(<<"yellow">>, "minimum", PyInt(1))>>)

\* the shape of the default patterns 1 to 4, with a shorter first run
RuleThreeSteps ==
    StaticRule(<<"C">>, TRUE,
               <<Step(<<"green_yellow">>, "minimum", PyInt(2)),
                 Step(<<"red">>, "exact", PyInt(1)),
                 Step(<<"green_yellow">>, "minimum", PyInt(1))>>,
               <<Step(<<"green_yellow">>, "minimum", PyInt(2)),
                 Step(<<"red">>, "minimum", PyInt(2))>>)

\* a dynamic rule whose values repeat
RuleRepeat ==
    WithAlerts(DynamicRule(<<"D">>, TRUE,
                   <<Step(<<"red">>, "minimum", XMinus(2))>>,
                   <<Step(<<"green_yellow">>, "minimum", XMinus(2))>>,
                   <<3, 3>>),
               Alerts(2, 2, 1))

\* the shape of the default patterns 6 and 7, with smaller counts
RuleExactX ==
    DynamicRule(<<"E">>, TRUE,
                <<Step(<<"red">>, "exact", XMinus(2))>>,
                <<Step(<<"red">>, "minimum", XMinus(1))>>,
                <<3, 4>>)

\* a dynamic rule with a step that has no count
RuleNoCount ==
    DynamicRule(<<"F">>, TRUE,
                <<StepNoCount(<<"green_yellow">>, "minimum"),
                  Step(<<"red">>, "exact", PyInt(1))>>,
                <<Step(<<"red">>, "minimum", PyInt(2))>>,
                <<3>>)

Row(rule, active) ==
    [name |-> rule.name, rule |-> rule, active |-> active, priority |-> 0]

\* an alerts object that sets the cooldown only
CooldownOnly(c) ==
    [keys |-> {"cooldown_rounds"}, trigger_streak_threshold |-> 0,
     miss_threshold |-> 0, cooldown_rounds |-> c]

Stores ==
    { <<Row(WithAlerts(RuleEvery, Alerts(3, 2, 1)), TRUE)>>,
      <<Row(RuleEvery, TRUE), Row(WithAlerts(RuleGaps, CooldownOnly(0)), TRUE)>>,
      <<Row(RuleThreeSteps, TRUE), Row(WithAlerts(RuleEvery, Alerts(2, 3, 2)), TRUE)>>,
      <<Row(RuleRepeat, TRUE)>>,
      <<Row(WithAlerts(RuleExactX, CooldownOnly(2)), TRUE),
        Row(WithAlerts(RuleEvery, Alerts(1, 1, 0)), FALSE)>>,
      <<Row(WithAlerts(RuleGaps, Alerts(2, 2, 1)), TRUE), Row(RuleNoCount, TRUE)>>,
      <<Row(RuleNoCount, TRUE), Row(RuleEvery, TRUE)>> }

(***************************************************************************)
(* The state.                                                              *)
(***************************************************************************)
VARIABLES
    patterns_tbl,           \* the patterns table: id -> row
    stats_tbl,              \* the pattern_stats rows: pattern id -> stat
    sub_stats_tbl,          \* the pattern_sub_stats rows: <<id, sub key>> -> stat
    engine_patterns,        \* pattern_engine.patterns
    pattern_stats_cache,
    recent_colors,
    recent_rounds,
    rounds_tbl,             \* the rounds table: the outcomes stored, in id order
    alert_cooldown_cache,
    round_count,            \* the outcomes received so far
    response,               \* how the last handler ended
    last_results,           \* what process_round returned in the last round
    last_history,           \* the streak_history rows added in the last round
    last_alerts,            \* the alerts emitted in the last round
    last_steps,             \* history: the rule evaluations of the last round
    last_evals,             \* history: the alert evaluations of the last round
    prev_stats,             \* the snapshot of line 462 in the last round
    run_rounds,             \* history: key -> rounds in a row with the event
    run_events,             \* history: key -> events since the opposite event
    eval_log,               \* history: cooldown key -> its eligible evaluations
    m_colors, m_steps, m_tyag, m_result,  \* a call of match_sequence
    e_rule, e_out,          \* a call of expand_dynamic_pattern
    r_value, r_x, r_out,    \* a call of _replace_x_expr
    v_rule, v_out,          \* a call of _validate_rule_json
    v_data,                 \* the body of the request that made the call
    s_out,                  \* the answer of the last simulate request
    bc_listener,            \* the BCGameListener, its threads and its source
    webhook,                \* the notification settings enable a webhook
    in_flight               \* the rounds suspended in send_notification

vars ==
    <<patterns_tbl, stats_tbl, sub_stats_tbl, engine_patterns,
      pattern_stats_cache, recent_colors, recent_rounds, rounds_tbl,
      alert_cooldown_cache,
      round_count, response, last_results, last_history, last_alerts,
      last_steps, last_evals, prev_stats, run_rounds, run_events, eval_log,
      m_colors, m_steps, m_tyag, m_result,
      e_rule, e_out, r_value, r_x, r_out, v_rule, v_out, v_data, s_out,
      bc_listener, webhook, in_flight>>

storeVars == <<patterns_tbl, engine_patterns, webhook, in_flight>>

matchVars == <<m_colors, m_steps, m_tyag, m_result>>

expandVars == <<e_rule, e_out>>

replaceVars == <<r_value, r_x, r_out>>

validateVars == <<v_rule, v_out, v_data>>

simulateVars == <<s_out>>

listenerVars == <<bc_listener>>

callVars ==
    <<matchVars, expandVars, replaceVars, validateVars, simulateVars, listenerVars>>

roundVars ==
    <<stats_tbl, sub_stats_tbl, pattern_stats_cache, recent_colors,
      recent_rounds, rounds_tbl, alert_cooldown_cache, round_count, response, last_results,
      last_history, last_alerts, last_steps, last_evals, prev_stats,
      run_rounds, run_events, eval_log>>

EmptyMap == [k \in {} |-> 0]

\* the value of s_out when no simulate request has been made
NoSimulation ==
    [done |-> FALSE, raised |-> FALSE, id |-> 0, pattern_name |-> <<>>,
     total_rounds |-> 0, sub_patterns |-> <<>>]

\* BCGameListener.__init__ (bc_game_listener.py 14-24) before start(): no
\* value delivered yet (0 stands for None), no thread started.  `source' is
\* the list of the results the game has reported, oldest first, `ws_seen'
\* the number of them whose websocket message has arrived, `delivered' the
\* calls of on_crash_callback and `heard' the rounds whose report a loop
\* has handled to the end.
NoCall == [round |-> 0, value |-> 0]

NewListener ==
    [last_crash_value |-> 0, running |-> FALSE, subscribed |-> FALSE,
     start_pc |-> "init",
     source |-> <<>>, ws_seen |-> 0, delivered |-> <<>>, heard |-> {},
     ws_thread |-> [pc |-> "absent", loop |-> "ws", call |-> NoCall],
     poll_thread |-> [pc |-> "absent", loop |-> "poll", call |-> NoCall]]

\* the state after start_bc_listener: the tables of a store whose stats are
\* all zero and that holds no round, loaded into the engine
InitSettings(store, hook) ==
    /\ webhook = hook
    /\ in_flight = <<>>
    /\ patterns_tbl = [id \in 1..Len(store) |-> store[id]]
    /\ stats_tbl = [id \in 1..Len(store) |-> ZeroStat]
    /\ sub_stats_tbl =
          SubStatsAfterLoad([id \in 1..Len(store) |-> store[id]], EmptyMap)
    /\ engine_patterns =
          EngineList([id \in 1..Len(store) |-> store[id]],
                     ActiveIds([id \in 1..Len(store) |-> store[id]]), 1)
    /\ pattern_stats_cache =
          CacheAfterLoad([id \in 1..Len(store) |-> store[id]],
                         [id \in 1..Len(store) |-> ZeroStat], EmptyMap)
    /\ recent_colors = <<>>
    /\ recent_rounds = <<>>
    /\ rounds_tbl = <<>>
    /\ alert_cooldown_cache = EmptyMap
    /\ round_count = 0
    /\ response = "started"
    /\ last_results = <<>>
    /\ last_history = {}
    /\ last_alerts = <<>>
    /\ last_steps = <<>>
    /\ last_evals = <<>>
    /\ prev_stats = EmptyMap
    /\ run_rounds = EmptyMap
    /\ run_events = EmptyMap
    /\ eval_log = EmptyMap
    /\ s_out = NoSimulation
    /\ bc_listener = NewListener

\* the default notification settings: the websocket channel only
InitStore(store) == InitSettings(store, FALSE)

NoMatchCall ==
    /\ m_colors = <<>>
    /\ m_steps = <<>>
    /\ m_tyag = TRUE
    /\ m_result = "none"

NoExpandCall ==
    /\ e_rule = RuleEvery
    /\ e_out = [done |-> FALSE, rules |-> <<>>]

NoReplaceCall ==
    /\ r_value = PyNone
    /\ r_x = 0
    /\ r_out = [done |-> FALSE, value |-> PyNone]

\* the value of v_data when no request has made a call
NoRequest == [with_rule_json |-> TRUE, rule |-> RuleEvery, active |-> "absent"]

NoValidateCall ==
    /\ v_data = NoRequest
    /\ v_rule = RuleEvery
    /\ v_out = [done |-> FALSE, ok |-> FALSE, err |-> "", raised |-> FALSE]

Init ==
    /\ \E store \in Stores : InitStore(store)
    /\ NoMatchCall /\ NoExpandCall /\ NoReplaceCall /\ NoValidateCall

(***************************************************************************)
(* History variables, computed from what a round did.                      *)
(***************************************************************************)
Runs(m, k) == IF k \in DOMAIN m THEN m[k] ELSE [trigger |-> 0, miss |-> 0]

Fired(steps, k, kind) ==
    \E j \in 1..Len(steps) : steps[j].pattern_id = k /\ steps[j].event = kind

\* per key, the number of processed rounds in a row, up to the last one, in
\* which the trigger (miss) event fired for the key
NextRunRounds(old, steps, keys) ==
    [k \in keys |->
        [trigger |-> IF Fired(steps, k, "trigger") THEN Runs(old, k).trigger + 1 ELSE 0,
         miss |-> IF Fired(steps, k, "miss") THEN Runs(old, k).miss + 1 ELSE 0]]

\* per key, the number of trigger (miss) events since its last miss
\* (trigger) event
RECURSIVE NextRunEvents(_, _, _)
NextRunEvents(old, steps, j) ==
    IF j > Len(steps) THEN old
    ELSE LET k == steps[j].pattern_id
             r == Runs(old, k)
             r2 == CASE steps[j].event = "trigger" ->
                           [trigger |-> r.trigger + 1, miss |-> 0]
                     [] steps[j].event = "miss" ->
                           [trigger |-> 0, miss |-> r.miss + 1]
                     [] OTHER -> r
         IN  NextRunEvents([x \in (DOMAIN old) \cup {k} |->
                               IF x = k THEN r2 ELSE old[x]], steps, j + 1)

\* per cooldown key, its eligible evaluations in order
RECURSIVE NextEvalLog(_, _, _, _)
NextEvalLog(old, evals, j, round_number) ==
    IF j > Len(evals) THEN old
    ELSE LET e == evals[j]
             ck == CooldownKey(e.pattern_id, AlertType(e.event))
             entry == [round |-> round_number, streak |-> e.streak,
                       fired |-> e.fired, cooldown |-> e.cooldown]
         IN  NextEvalLog(
                IF ~e.eligible THEN old
                ELSE [x \in (DOMAIN old) \cup {ck} |->
                        IF x = ck
                        THEN (IF ck \in DOMAIN old THEN old[ck] ELSE <<>>) \o <<entry>>
                        ELSE old[x]],
                evals, j + 1, round_number)

(***************************************************************************)
(* main.py: process_round_patterns, as called by on_crash_received and by  *)
(* POST /api/rounds.  When process_round raises, the buffer has the new    *)
(* outcome and the stats cache keeps the updates made before the raise;    *)
(* nothing else of the round is done.                                      *)
(***************************************************************************)
\* Evict that drops the newest entry
Evict_DropsNewest(buffer) ==
    IF Len(buffer) > MAX_COLORS_BUFFER THEN SubSeq(buffer, 1, MAX_COLORS_BUFFER)
    ELSE buffer

\* lines 456-460
Evict(buffer) ==
    IF Len(buffer) > MAX_COLORS_BUFFER THEN Tail(buffer) ELSE buffer

\* RoundOutcome that evicts from the colour buffer only
RoundOutcome_EvictsColorsOnly(color, round_number) ==
    [colors |-> Evict(Append(recent_colors, color)),
     rounds |-> Append(recent_rounds, round_number),
     pr |-> process_round(Evict(Append(recent_colors, color)), engine_patterns,
                          pattern_stats_cache)]

\* what one call computes from the state it starts in
RoundOutcome(color, round_number) ==
    [colors |-> Evict(Append(recent_colors, color)),
     rounds |-> Evict(Append(recent_rounds, round_number)),
     pr |-> process_round(Evict(Append(recent_colors, color)), engine_patterns,
                          pattern_stats_cache)]

AlertOutcome(results, round_number) ==
    AlertLoop(results, 1, patterns_tbl, round_number,
              [cooldowns |-> alert_cooldown_cache, alerts |-> <<>>, evals |-> <<>>])

process_round_patterns(color, done, failed) ==
    \E o \in {RoundOutcome(color, round_count + 1)} :
    \E al \in {AlertOutcome(o.pr.results, round_count + 1)} :
        /\ recent_colors' = o.colors
        /\ recent_rounds' = o.rounds
        /\ round_count' = round_count + 1
        /\ prev_stats' = pattern_stats_cache
        /\ pattern_stats_cache' = o.pr.stats
        /\ last_steps' = o.pr.steps
        /\ run_rounds' = NextRunRounds(run_rounds, o.pr.steps, DOMAIN o.pr.stats)
        /\ run_events' = NextRunEvents(run_events, o.pr.steps, 1)
        /\ IF o.pr.raised
           THEN /\ response' = failed
                /\ last_results' = <<>>
                /\ last_history' = {}
                /\ last_alerts' = <<>>
                /\ last_evals' = <<>>
                /\ UNCHANGED <<stats_tbl, sub_stats_tbl, alert_cooldown_cache, eval_log>>
           ELSE /\ response' = done
                /\ last_results' = o.pr.results
                /\ last_history' =
                      HistoryRecords(pattern_stats_cache, o.pr.stats, o.colors, o.rounds)
                /\ stats_tbl' = PersistStats(o.pr.results, 1, stats_tbl)
                /\ sub_stats_tbl' = PersistSubStats(o.pr.results, 1, sub_stats_tbl)
                /\ alert_cooldown_cache' = al.cooldowns
                /\ last_alerts' = al.alerts
                /\ last_evals' = al.evals
                /\ eval_log' = NextEvalLog(eval_log, al.evals, 1, round_count + 1)

Values == {1, 2, 10}

\* lines 550-565 and 588-607: the round is committed before it is processed
StoreRound(color) ==
    rounds_tbl' = Append(rounds_tbl, [color |-> color, round_number |-> round_count + 1])

\* the listener's callback: an exception is caught and printed
on_crash_received(value) ==
    /\ round_count < MaxRounds
    /\ StoreRound(get_color_from_value(value))
    /\ process_round_patterns(get_color_from_value(value), "saved", "error printed")
    /\ UNCHANGED <<storeVars, callVars>>

\* POST /api/rounds: an exception leaves the handler
api_rounds(value) ==
    /\ round_count < MaxRounds
    /\ StoreRound(get_color_from_value(value))
    /\ process_round_patterns(get_color_from_value(value), "201", "500")
    /\ UNCHANGED <<storeVars, callVars>>

OnCrashReceived == \E value \in Values : on_crash_received(value)

ApiRounds == \E value \in Values : api_rounds(value)

Next == OnCrashReceived \/ ApiRounds

Spec == Init /\ [][Next]_vars

(***************************************************************************)
(* A call of match_sequence on its own: the buffer, the step list and the  *)
(* flag are drawn from bounded sets, and the call stores its outcome.      *)
(***************************************************************************)
RECURSIVE SeqsUpTo(_, _)
SeqsUpTo(S, n) ==
    IF n = 0 THEN {<<>>}
    ELSE LET shorter == SeqsUpTo(S, n - 1)
         IN  shorter \cup {Append(q, e) : q \in {r \in shorter : Len(r) = n - 1}, e \in S}

MatchGroups ==
    {<<"red">>, <<"green">>, <<"yellow">>, <<"green_yellow">>, <<"red", "green">>}

MatchOperators == {"exact", "minimum", "maximum"}

\* literal counts, a count written as text, an unresolved symbolic count,
\* and the None that expansion gives a step without a count
MatchCounts ==
    {PyInt(0), PyInt(1), PyInt(2), PyInt(3), PyStr(<<"2">>),
     PyStr(<<"$", "X">>), PyStr(<<" ", "1">>), PyNone}

SingleSteps ==
    {Step(g, op, c) : g \in MatchGroups, op \in MatchOperators, c \in MatchCounts}
      \cup {StepNoCount(g, "exact") : g \in MatchGroups}
      \cup {Step(<<"red">>, "weird", PyInt(1)), Step(<<>>, "minimum", PyInt(1))}

PairSteps ==
    {Step(g, op, c) : g \in {<<"red">>, <<"green_yellow">>},
                      op \in MatchOperators, c \in {PyInt(1), PyInt(2)}}
      \cup {Step(<<"red">>, "minimum", PyNone),
            Step(<<"red">>, "minimum", PyStr(<<"$", "X">>))}

\* the step lists of the sub-rules the engine loads for the rule without a
\* count
LoadedStepLists ==
    {expand_dynamic_pattern(RuleNoCount)[1].trigger,
     expand_dynamic_pattern(RuleNoCount)[1].miss}

StepLists ==
    {<<>>} \cup {<<s>> : s \in SingleSteps}
           \cup {<<s1, s2>> : s1 \in PairSteps, s2 \in PairSteps}
           \cup LoadedStepLists

MatchInit ==
    /\ InitStore(<<Row(RuleEvery, TRUE)>>)
    /\ m_colors \in SeqsUpTo(Colors, MaxLen)
    /\ m_steps \in StepLists
    /\ m_tyag \in BOOLEAN
    /\ m_result = "none"
    /\ NoExpandCall /\ NoReplaceCall /\ NoValidateCall

MatchCall ==
    /\ m_result = "none"
    /\ m_result' = match_sequence(m_colors, m_steps, m_tyag)
    /\ UNCHANGED <<storeVars, roundVars, m_colors, m_steps, m_tyag>>
    /\ UNCHANGED <<expandVars, replaceVars, validateVars, simulateVars,
                   listenerVars>>

MatchNext == MatchCall

SpecMatch == MatchInit /\ [][MatchNext]_vars

(***************************************************************************)
(* Properties of the round processing (specification Spec).                *)
(***************************************************************************)
AllStats ==
    {pattern_stats_cache[k] : k \in DOMAIN pattern_stats_cache}
      \cup {stats_tbl[k] : k \in DOMAIN stats_tbl}
      \cup {sub_stats_tbl[k] : k \in DOMAIN sub_stats_tbl}

\* C1: for every rule key, in the cache and in the stored rows, at most one
\* of trigger_streak and miss_streak is non-zero.
C1_AtMostOneStreak ==
    \A st \in AllStats : st.trigger_streak = 0 \/ st.miss_streak = 0

\* a miss has just ended a trigger streak of at least 2
C1_Witness ==
    \E k \in DOMAIN pattern_stats_cache :
        /\ k \in DOMAIN prev_stats
        /\ prev_stats[k].trigger_streak >= 2
        /\ pattern_stats_cache[k].miss_streak = 1
        /\ pattern_stats_cache[k].trigger_streak = 0

Max(a, b) == IF a > b THEN a ELSE b

AfterTrigger(st) ==
    [trigger_streak |-> st.trigger_streak + 1,
     miss_streak |-> 0,
     total_triggers |-> st.total_triggers + 1,
     total_misses |-> st.total_misses,
     longest_trigger_streak |-> Max(st.longest_trigger_streak, st.trigger_streak + 1),
     longest_miss_streak |-> st.longest_miss_streak]

AfterMiss(st) ==
    [trigger_streak |-> 0,
     miss_streak |-> st.miss_streak + 1,
     total_triggers |-> st.total_triggers,
     total_misses |-> st.total_misses + 1,
     longest_trigger_streak |-> st.longest_trigger_streak,
     longest_miss_streak |-> Max(st.longest_miss_streak, st.miss_streak + 1)]

StepsOf(k) == SelectSeq(last_steps, LAMBDA e : e.pattern_id = k)

\* C2: each evaluation of the last round in which the trigger (miss) matched
\* took the key's stat to trigger_streak + 1, miss_streak 0, total_triggers
\* + 1 and longest_trigger_streak = max(old longest, new streak)
\* (symmetrically for a miss); the evaluations of a key start from the
\* round-start stat of the key, follow one another, and end in the stat the
\* cache holds.
C2_Transition ==
    /\ \A j \in 1..Len(last_steps) :
          /\ last_steps[j].event = "trigger" =>
                last_steps[j].after = AfterTrigger(last_steps[j].before)
          /\ last_steps[j].event = "miss" =>
                last_steps[j].after = AfterMiss(last_steps[j].before)
    /\ \A k \in {last_steps[j].pattern_id : j \in 1..Len(last_steps)} :
          /\ StepsOf(k)[1].before = StatOf(prev_stats, k)
          /\ StepsOf(k)[Len(StepsOf(k))].after = pattern_stats_cache[k]
          /\ \A j \in 2..Len(StepsOf(k)) : StepsOf(k)[j].before = StepsOf(k)[j - 1].after

\* five trigger matches from the all-zero state, then a miss match
C2_Witness ==
    \E j \in 1..Len(last_steps) :
        /\ last_steps[j].event = "miss"
        /\ last_steps[j].before.trigger_streak = 5
        /\ last_steps[j].before.longest_trigger_streak = 5
        /\ last_steps[j].before.total_triggers = 5
        /\ last_steps[j].before.miss_streak = 0
        /\ last_steps[j].after.trigger_streak = 0
        /\ last_steps[j].after.miss_streak = 1

\* the keys the engine evaluates once per round
EvaluatedOnce(k) ==
    Cardinality({j \in 1..Len(engine_patterns) : engine_patterns[j][1] = k}) = 1

\* C3 as claimed: the streak of a key is the number of processed rounds in a
\* row, up to the last one, in which the event fired for the key (stated for
\* the keys that are evaluated once per round).
C3_StreakIsRunOfRounds ==
    \A k \in DOMAIN pattern_stats_cache :
        EvaluatedOnce(k) =>
            /\ pattern_stats_cache[k].trigger_streak = Runs(run_rounds, k).trigger
            /\ pattern_stats_cache[k].miss_streak = Runs(run_rounds, k).miss

\* C3 as amended: the streak of a key is the number of trigger (miss) events
\* of the key since its last miss (trigger) event; a round without event
\* for the key leaves the streak as it is.
C3_StreakIsRunOfEvents ==
    \A k \in DOMAIN pattern_stats_cache :
        /\ pattern_stats_cache[k].trigger_streak = Runs(run_events, k).trigger
        /\ pattern_stats_cache[k].miss_streak = Runs(run_events, k).miss

\* a trigger streak of 2 that spans a round without event for the key
C3_Witness ==
    \E k \in DOMAIN pattern_stats_cache :
        /\ EvaluatedOnce(k)
        /\ pattern_stats_cache[k].trigger_streak = 2
        /\ Runs(run_rounds, k).trigger = 1
        /\ Runs(run_events, k).trigger = 2

RecordsOf(k, kind) ==
    {rec \in last_history : rec.pattern_key = k /\ rec.streak_type = kind}

StreakField(kind) == IF kind = "trigger" THEN "trigger_streak" ELSE "miss_streak"

HistoryAsClaimed(k, kind) ==
    LET before == StatOf(prev_stats, k)[StreakField(kind)]
        after == pattern_stats_cache[k][StreakField(kind)]
    IN  /\ (RecordsOf(k, kind) # {}) <=> (before >= 2 /\ after < before)
        /\ Cardinality(RecordsOf(k, kind)) <= 1
        /\ \A rec \in RecordsOf(k, kind) : rec.streak_length = before

\* C4: in the last round, a streak-history record of a kind was added for a
\* key if and only if the key's streak of that kind was at least 2 in the
\* round-start snapshot and is smaller after the round; there is one such
\* record and its length is the round-start value.
C4_HistoryIff ==
    round_count > 0 =>
        \A k \in DOMAIN pattern_stats_cache : \A kind \in {"trigger", "miss"} :
            HistoryAsClaimed(k, kind)

\* the same, for the rounds that process_round completed
C4_HistoryIffCompleted ==
    (round_count > 0 /\ response \in {"saved", "201"}) =>
        \A k \in DOMAIN pattern_stats_cache : \A kind \in {"trigger", "miss"} :
            HistoryAsClaimed(k, kind)

(***************************************************************************)
(* Properties of the alert cooldown (specification Spec).  eval_log holds, *)
(* per (rule key, alert kind), the eligible calls of check_and_fire_alert  *)
(* in order.                                                               *)
(***************************************************************************)
FiredIn(log, from, to) == Cardinality({i \in from..to : log[i].fired})

CooldownCycle(log, c) ==
    \* with no outstanding cooldown (the first eligible call) an alert is emitted
    /\ log[1].fired
    \* after an alert the next c eligible calls emit nothing and the one
    \* after them emits again
    /\ \A i \in 1..Len(log) :
          log[i].fired =>
              /\ \A j \in 1..c : i + j <= Len(log) => ~log[i + j].fired
              /\ i + c + 1 <= Len(log) => log[i + c + 1].fired
    \* among any c + 1 consecutive eligible calls exactly one emits
    /\ \A i \in 1..(Len(log) - c) : FiredIn(log, i, i + c) = 1

RuleOfKey(k) == patterns_tbl[BasePatternId(k)].rule

\* the threshold of an event kind as the rule configures it, or 5 for
\* trigger and 2 for miss
ThresholdOf(rule, event) ==
    LET name == IF event = "trigger" THEN "trigger_streak_threshold"
                ELSE "miss_threshold"
    IN  IF "alerts" \in rule.keys /\ name \in rule.alerts.keys
        THEN rule.alerts[name]
        ELSE IF event = "trigger" THEN 5 ELSE 2

CounterOf(cooldowns, ck) == IF ck \in DOMAIN cooldowns THEN cooldowns[ck] ELSE 0

\* the cooldown counter as the last round found it
CounterBefore(ck) ==
    IF last_evals # <<>> THEN CounterOf(last_evals[1].before, ck)
    ELSE CounterOf(alert_cooldown_cache, ck)

ReachedThreshold(k) ==
    /\ k \in DOMAIN prev_stats
    /\ prev_stats[k].trigger_streak
          < ThresholdOf(RuleOfKey(k), "trigger")
    /\ pattern_stats_cache[k].trigger_streak
          >= ThresholdOf(RuleOfKey(k), "trigger")

\* C5: when a run of trigger events takes the trigger streak of a rule key
\* to its threshold T while no cooldown is outstanding, an alert of kind
\* trigger_streak is emitted for the key in that round.
C5_AlertAtThreshold ==
    \A k \in DOMAIN pattern_stats_cache :
        (ReachedThreshold(k) /\ CounterBefore(CooldownKey(k, "trigger_streak")) = 0)
            => \E i \in 1..Len(last_alerts) :
                  /\ last_alerts[i].pattern_id = k
                  /\ last_alerts[i].event = "trigger_streak"

\* the same, for the rounds that process_round completes
C5_AlertAtThresholdCompleted ==
    response \in {"saved", "201"} => C5_AlertAtThreshold

\* over the calls of check_and_fire_alert: for every (rule key, alert
\* kind) with a cooldown c >= 0, the first eligible evaluation emits an
\* alert, the next c eligible ones emit nothing, the one after them emits
\* again, and among any c + 1 consecutive eligible evaluations exactly one
\* emits.
CooldownCycleOverEvaluations ==
    \A ck \in DOMAIN eval_log :
        eval_log[ck][1].cooldown >= 0 =>
            CooldownCycle(eval_log[ck], eval_log[ck][1].cooldown)

\* threshold 3 and cooldown 1 over one run of trigger events: an alert at
\* streak 3, none at 4, an alert at 5
CooldownCycleSeen ==
    \E ck \in DOMAIN eval_log :
        /\ Len(eval_log[ck]) = 3
        /\ eval_log[ck][1].cooldown = 1
        /\ eval_log[ck][1].streak = 3 /\ eval_log[ck][1].fired
        /\ eval_log[ck][2].streak = 4 /\ ~eval_log[ck][2].fired
        /\ eval_log[ck][3].streak = 5 /\ eval_log[ck][3].fired

RoundsBetween(log, i, j) == log[j].round - log[i].round - 1

\* C6: between two alerts of the same kind for the same rule key at least
\* cooldown_rounds processed rounds elapse.
C6_CooldownRounds ==
    \A ck \in DOMAIN eval_log :
        \A i \in 1..Len(eval_log[ck]) : \A j \in (i + 1)..Len(eval_log[ck]) :
            (eval_log[ck][i].fired /\ eval_log[ck][j].fired) =>
                RoundsBetween(eval_log[ck], i, j) >= eval_log[ck][i].cooldown

CooldownKeyEvaluatedOnce(ck) ==
    \A k \in {engine_patterns[j][1] : j \in 1..Len(engine_patterns)} :
        (ck = CooldownKey(k, "trigger_streak") \/ ck = CooldownKey(k, "miss_streak"))
            => EvaluatedOnce(k)

\* the same, for the keys that are evaluated once per round
C6_CooldownRoundsUniqueKeys ==
    \A ck \in DOMAIN eval_log :
        CooldownKeyEvaluatedOnce(ck) =>
            \A i \in 1..Len(eval_log[ck]) : \A j \in (i + 1)..Len(eval_log[ck]) :
                (eval_log[ck][i].fired /\ eval_log[ck][j].fired) =>
                    RoundsBetween(eval_log[ck], i, j) >= eval_log[ck][i].cooldown

\* C7: an evaluation is eligible exactly when the streak is at least the
\* threshold of the event's own kind (5 and 2 by default); one that is not
\* eligible emits nothing and leaves the cooldown counters as they are.
C7_Eligibility ==
    \A j \in 1..Len(last_evals) :
        LET e == last_evals[j]
        IN  /\ e.eligible <=> e.streak >= ThresholdOf(RuleOfKey(e.pattern_id), e.event)
            /\ ~e.eligible => (~e.fired /\ e.after = e.before)

\* under the default thresholds 5 and 2: a miss event of streak 2 was
\* eligible and a later trigger event of streak 4 is not
C7_Witness ==
    \E j \in 1..Len(last_evals) :
        LET e == last_evals[j]
            ck == CooldownKey(e.pattern_id, "miss_streak")
        IN  /\ "alerts" \notin RuleOfKey(e.pattern_id).keys
            /\ e.event = "trigger" /\ e.streak = 4 /\ ~e.eligible
            /\ ck \in DOMAIN eval_log
            /\ eval_log[ck][1].streak = 2

ExpectedAlert(e) ==
    [pattern_id |-> e.pattern_id,
     pattern_name |-> patterns_tbl[BasePatternId(e.pattern_id)].name,
     event |-> AlertType(e.event), streak |-> e.streak, round |-> round_count]

FiredEvals == SelectSeq(last_evals, LAMBDA e : e.fired)

\* C8: an eligible evaluation whose counter is positive decrements it by 1
\* and emits nothing; any other eligible evaluation sets the counter to the
\* configured cooldown_rounds and emits one alert that carries the rule key,
\* the rule name, the alert kind, the streak and the round.
C8_CooldownStep ==
    /\ \A j \in 1..Len(last_evals) :
          LET e == last_evals[j]
              ck == CooldownKey(e.pattern_id, AlertType(e.event))
          IN  e.eligible =>
                  IF CounterOf(e.before, ck) > 0
                  THEN e.after[ck] = e.before[ck] - 1 /\ ~e.fired
                  ELSE e.after[ck] = e.cooldown /\ e.fired
    /\ Len(last_alerts) = Len(FiredEvals)
    /\ \A i \in 1..Len(FiredEvals) : last_alerts[i] = ExpectedAlert(FiredEvals[i])

\* a round with a suppressed evaluation that takes a counter from 2 to 1
\* and an evaluation that emits an alert
C8_Witness ==
    /\ \E j \in 1..Len(last_evals) :
          LET e == last_evals[j]
              ck == CooldownKey(e.pattern_id, AlertType(e.event))
          IN  e.eligible /\ ~e.fired /\ CounterOf(e.before, ck) = 2 /\ e.after[ck] = 1
    /\ Len(last_alerts) >= 1

(***************************************************************************)
(* Properties of match_sequence (specification SpecMatch).                 *)
(***************************************************************************)
\* the length of the maximal run of members of the group at the end of the
\* buffer
RunAtEnd(colors, group, tyag) ==
    CHOOSE r \in 0..Len(colors) :
        /\ \A j \in (Len(colors) - r + 1)..Len(colors) :
              color_matches_group(colors[j], group, tyag)
        /\ r < Len(colors) =>
              ~color_matches_group(colors[Len(colors) - r], group, tyag)

Satisfies(operator, r, n) ==
    \/ operator = "exact" /\ r = n
    \/ operator = "minimum" /\ r >= n
    \/ operator = "maximum" /\ r <= n

SingleIntegerStep ==
    /\ Len(m_steps) = 1
    /\ m_steps[1].keys = {"colors", "operator", "count"}
    /\ m_steps[1].operator \in {"exact", "minimum", "maximum"}
    /\ m_steps[1].count.t = "int"

\* C9: for a list of one step with group G, an integer count n and one of
\* the three operators, match_sequence on a non-empty buffer returns true
\* exactly when the run r of G-members at the end of the buffer has r = n
\* (exact), r >= n (minimum), r <= n (maximum).
C9_SingleStep ==
    (m_result # "none" /\ SingleIntegerStep /\ m_colors # <<>>) =>
        /\ m_result \in {"True", "False"}
        /\ m_result = "True" <=>
              Satisfies(m_steps[1].operator,
                        RunAtEnd(m_colors, m_steps[1].colors, m_tyag),
                        m_steps[1].count.n)

\* exact 3 green_yellow on [green, green, green, green] does not match
C9_Witness ==
    /\ m_colors = <<"green", "green", "green", "green">>
    /\ m_steps = <<Step(<<"green_yellow">>, "exact", PyInt(3))>>
    /\ m_result = "False"

\* a count that is present and is not an integer nor the text of one
NotAnInteger(step) ==
    /\ "count" \in step.keys
    /\ \/ step.count.t = "none"
       \/ step.count.t = "str" /\ ~IntOfStr(step.count.s).ok

\* C10: match_sequence never raises: every call returns a boolean, and it
\* returns false whenever the count of some step is not an integer.
C10_NeverRaises ==
    m_result # "none" =>
        /\ m_result \in {"True", "False"}
        /\ (\E k \in 1..Len(m_steps) : NotAnInteger(m_steps[k]))
              => m_result = "False"

\* the same, for the step lists in which no count is None
C10_NeverRaisesWithoutNone ==
    (\A k \in 1..Len(m_steps) : m_steps[k].count.t # "none" \/ "count" \notin m_steps[k].keys)
        => C10_NeverRaises

(***************************************************************************)
(* Properties of color_matches_group (specification SpecMatch): a call of  *)
(* match_sequence with one step "minimum 1" of a one-name group returns    *)
(* whether the last outcome of the buffer belongs to the group.            *)
(***************************************************************************)
LiteralNames == {"red", "green", "yellow"}

OneLiteralStep ==
    /\ m_result # "none"
    /\ m_colors # <<>>
    /\ Len(m_steps) = 1
    /\ m_steps[1].keys = {"colors", "operator", "count"}
    /\ m_steps[1].operator = "minimum"
    /\ m_steps[1].count = PyInt(1)
    /\ Len(m_steps[1].colors) = 1
    /\ m_steps[1].colors[1] \in LiteralNames

LastOutcome == m_colors[Len(m_colors)]

AfterNormalization(color, flag) ==
    IF flag /\ color = "yellow" THEN "green" ELSE color

\* C11 as claimed: an outcome matches a literal color name exactly when it
\* equals the name after yellow-to-green normalization (the identity when
\* the flag is not set).
C11_LiteralAfterNormalization ==
    OneLiteralStep =>
        (m_result = "True"
            <=> m_steps[1].colors[1] = AfterNormalization(LastOutcome, m_tyag))

\* C11 as amended: an outcome matches a literal color name exactly when the
\* name equals the outcome itself or the outcome after normalization.
C11_LiteralRawOrNormalized ==
    OneLiteralStep =>
        (m_result = "True"
            <=> \/ m_steps[1].colors[1] = LastOutcome
                \/ m_steps[1].colors[1] = AfterNormalization(LastOutcome, m_tyag))

\* with the flag set, a yellow outcome matches the literal 'yellow'
C11_Witness ==
    /\ OneLiteralStep
    /\ m_tyag
    /\ LastOutcome = "yellow"
    /\ m_steps[1].colors[1] = "yellow"
    /\ m_result = "True"

(***************************************************************************)
(* Calls of expand_dynamic_pattern (specification SpecExpand).             *)
(***************************************************************************)
XPlus(k) == PyStr(<<"$", "X", "+">> \o StrOfInt(k))

\* the counts '$X', '$X+k' and '$X-k' with the number each adds to X
SymbolicCounts ==
    { [count |-> PyStr(<<"$", "X">>), plus |-> 0],
      [count |-> XPlus(1), plus |-> 1],
      [count |-> XPlus(12), plus |-> 12],
      [count |-> XMinus(2), plus |-> 0 - 2],
      [count |-> XMinus(10), plus |-> 0 - 10] }

ExpandCounts == {f.count : f \in SymbolicCounts} \cup {PyInt(2)}

ExpandValues ==
    { <<3>>, <<3, 4, 5>>, <<5, 3>>, <<3, 3>>, <<8, 4, 4, 6>>, <<3, 4, 5, 6, 7, 8>> }

ExpandRules ==
    { DynamicRule(<<"P">>, TRUE,
                  <<Step(<<"green_yellow">>, "minimum", PyInt(1)),
                    Step(<<"red">>, "exact", c1)>>,
                  <<Step(<<"red">>, "minimum", c2)>>, values) :
          c1 \in ExpandCounts, c2 \in ExpandCounts, values \in ExpandValues }
      \cup {RuleEvery, RuleGaps, RuleRepeat, RuleExactX, RuleNoCount}

ExpandInit ==
    /\ InitStore(<<Row(RuleEvery, TRUE)>>)
    /\ NoMatchCall /\ NoReplaceCall /\ NoValidateCall
    /\ e_rule \in ExpandRules
    /\ e_out = [done |-> FALSE, rules |-> <<>>]

ExpandCall ==
    /\ ~e_out.done
    /\ e_out' = [done |-> TRUE, rules |-> expand_dynamic_pattern(e_rule)]
    /\ e_rule' = TemplateAfter(e_rule)
    /\ UNCHANGED <<storeVars, roundVars, matchVars, replaceVars, validateVars,
                   simulateVars,
                   listenerVars>>

ExpandNext == ExpandCall

SpecExpand == ExpandInit /\ [][ExpandNext]_vars

Contains(s, part) ==
    \E i \in 0..(Len(s) - Len(part)) : SubSeq(s, i + 1, i + Len(part)) = part

\* the count the claim gives a step of the sub-rule for value x
ResolvedAsClaimed(before, after, x) ==
    \A j \in 1..Len(before) :
        \A f \in SymbolicCounts :
            ("count" \in before[j].keys /\ before[j].count = f.count)
                => after[j].count = PyInt(x + f.plus)

\* C12: for a dynamic rule with dynamic_values [v1..vn] the expansion has
\* exactly n sub-rules in that order; the i-th has dynamic_x = vi, a name
\* that contains vi and differs from the names of the sub-rules of other
\* values, and each count '$X', '$X+k', '$X-k' of its trigger and miss
\* steps is the integer vi, vi+k, vi-k.
C12_Expansion ==
    (e_out.done /\ e_rule.type = "dynamic") =>
        /\ Len(e_out.rules) = Len(e_rule.dynamic_values)
        /\ \A i \in 1..Len(e_out.rules) :
              LET x == e_rule.dynamic_values[i]
                  sub == e_out.rules[i]
              IN  /\ "dynamic_x" \in sub.keys /\ sub.dynamic_x = x
                  /\ Contains(sub.name, StrOfInt(x))
                  /\ Len(sub.trigger) = Len(e_rule.trigger)
                  /\ Len(sub.miss) = Len(e_rule.miss)
                  /\ ResolvedAsClaimed(e_rule.trigger, sub.trigger, x)
                  /\ ResolvedAsClaimed(e_rule.miss, sub.miss, x)
        /\ \A i, j \in 1..Len(e_out.rules) :
              e_rule.dynamic_values[i] # e_rule.dynamic_values[j]
                  => e_out.rules[i].name # e_out.rules[j].name

\* values [3, 4, 5] with the trigger count '$X' give three sub-rules with
\* the counts 3, 4, 5
C12_Witness ==
    /\ e_out.done
    /\ e_rule.dynamic_values = <<3, 4, 5>>
    /\ e_rule.trigger[2].count = PyStr(<<"$", "X">>)
    /\ e_rule.miss[1].count = XMinus(2)
    /\ Len(e_out.rules) = 3
    /\ \A i \in 1..3 : e_out.rules[i].trigger[2].count = PyInt(i + 2)
    /\ \A i \in 1..3 : e_out.rules[i].miss[1].count = PyInt(i)

(***************************************************************************)
(* Calls of _replace_x_expr (specification SpecReplace).                   *)
(***************************************************************************)
ReplaceTexts ==
    { <<"$", "X">>, <<"$", "X", "+", "1">>, <<"$", "X", "-", "2">>,
      <<"$", "X", "+", "1", "2">>, <<"$", "X", "-", "1", "0">>,
      <<"$", "X", "+", "0">>, <<"$", "X", "-", "0", "3">>,
      <<"$", "X", "+", "1", "+", "2">>, <<"$", "X", "$", "X">>,
      <<"1", "$", "X">>, <<"$", "X", "*", "2">>, <<"$", "X", "+", " ", "1">>,
      <<" ", "$", "X", " ">>, <<"$", "X", "-", "-", "1">>, <<"$", "X", "+">>,
      <<"-", "$", "X">>, <<"$", "x">>, <<"2">>, <<"a", "b", "c">>, <<>> }

ReplaceValues ==
    {PyStr(t) : t \in ReplaceTexts} \cup {PyInt(0), PyInt(1), PyInt(3), PyNone}

ReplaceXs == {3, 4, 5, 6, 7, 8}

ReplaceInit ==
    /\ InitStore(<<Row(RuleEvery, TRUE)>>)
    /\ NoMatchCall /\ NoExpandCall /\ NoValidateCall
    /\ r_value \in ReplaceValues
    /\ r_x \in ReplaceXs
    /\ r_out = [done |-> FALSE, value |-> PyNone]

ReplaceCall ==
    /\ ~r_out.done
    /\ r_out' = [done |-> TRUE, value |-> replace_x_expr(r_value, r_x)]
    /\ UNCHANGED <<storeVars, roundVars, r_value, r_x, matchVars, expandVars, validateVars,
                   simulateVars,
                   listenerVars>>

ReplaceNext == ReplaceCall

SpecReplace == ReplaceInit /\ [][ReplaceNext]_vars

\* '$X' followed by one sign and an unsigned digit string
SignedForm(s) ==
    /\ Len(s) >= 4
    /\ s[1] = "$" /\ s[2] = "X"
    /\ s[3] \in {"+", "-"}
    /\ \A i \in 4..Len(s) : s[i] \in Digits

SignedNumber(s) ==
    IF s[3] = "-" THEN 0 - DecValue(SubSeq(s, 4, Len(s)))
    ELSE DecValue(SubSeq(s, 4, Len(s)))

ResolutionAsClaimed(value, x) ==
    IF value.t # "str" THEN value
    ELSE IF value.s = <<"$", "X">> THEN PyInt(x)
    ELSE IF SignedForm(value.s) THEN PyInt(x + SignedNumber(value.s))
    ELSE value

\* C13: count resolution leaves a literal integer untouched, resolves '$X'
\* to X and '$X' followed by one sign and an unsigned digit string to X plus
\* the signed number, and returns every other text unchanged.
C13_Resolution ==
    r_out.done => r_out.value = ResolutionAsClaimed(r_value, r_x)

\* the same, for the integers and for the texts without '$X', the text
\* '$X' and the texts '$X' sign digits whose digits have no leading zero
C13_ResolutionOfPlainForms ==
    (/\ r_out.done
     /\ r_value.t = "str" => \/ ~ContainsX(r_value.s)
                             \/ r_value.s = <<"$", "X">>
                             \/ /\ SignedForm(r_value.s)
                                /\ (r_value.s[4] # "0" \/ Len(r_value.s) = 4))
        => r_out.value = ResolutionAsClaimed(r_value, r_x)

(***************************************************************************)
(* Properties of the engine's loaded rule list (specification Spec).       *)
(***************************************************************************)
EngineKey(j) == engine_patterns[j][1]

EngineRule(j) == engine_patterns[j][2]

\* the key of an entry as the claim forms it: the identity of a static
\* rule, '<identity>:X=<X>' of a sub-rule
KeyAsClaimed(j, id) ==
    IF EngineRule(j).type = "dynamic"
    THEN EngineKey(j) = StrOfInt(id) \o <<":", "X", "=">> \o StrOfInt(EngineRule(j).dynamic_x)
    ELSE EngineKey(j) = StrOfInt(id)

\* every entry of the loaded list has the key of an active stored rule
C14_KeyForm ==
    \A j \in 1..Len(engine_patterns) :
        \E id \in DOMAIN patterns_tbl : patterns_tbl[id].active /\ KeyAsClaimed(j, id)

\* C14: every entry of the loaded list has the key of its rule (the
\* identity, or '<identity>:X=<X>' for a sub-rule) and no two entries of
\* the list share a key.
C14_UniqueKeys ==
    /\ C14_KeyForm
    /\ \A i, j \in 1..Len(engine_patterns) : i # j => EngineKey(i) # EngineKey(j)

StaysStepsOrResets(before, after) ==
    after = before \/ after = before + 1 \/ after = 0

EventsOf(k) == {j \in 1..Len(last_steps) : last_steps[j].pattern_id = k
                                            /\ last_steps[j].event \in {"trigger", "miss"}}

UpdatedOnce(k) ==
    LET before == StatOf(prev_stats, k)
        after == pattern_stats_cache[k]
    IN  /\ StaysStepsOrResets(before.trigger_streak, after.trigger_streak)
        /\ StaysStepsOrResets(before.miss_streak, after.miss_streak)
        /\ after.total_triggers + after.total_misses
              <= before.total_triggers + before.total_misses + 1
        /\ Cardinality(EventsOf(k)) <= 1
        /\ Cardinality({j \in 1..Len(last_results) : last_results[j].pattern_id = k}) <= 1

\* C15: in one processed outcome each streak counter of a rule key stays,
\* grows by exactly 1 or is reset to 0, total_triggers + total_misses grows
\* by at most 1, and at most one match event is reported for the key.
C15_UpdatedOnce ==
    round_count > 0 => \A k \in DOMAIN pattern_stats_cache : UpdatedOnce(k)

\* the same, for the keys that the loaded list holds once
C15_UpdatedOnceUniqueKeys ==
    round_count > 0 =>
        \A k \in DOMAIN pattern_stats_cache : EvaluatedOnce(k) => UpdatedOnce(k)

(***************************************************************************)
(* Properties of a round in which the evaluation of a rule raises          *)
(* (specification Spec).                                                   *)
(***************************************************************************)
RoundFailed == response \in {"error printed", "500"}

\* C16: when the processing of an outcome fails with an internal error,
\* the PatternState of every rule key is what it was before the outcome
\* was processed.
C16_FailureLeavesStates ==
    RoundFailed => pattern_stats_cache = prev_stats

\* the rule of an entry raises on the buffer of the last round
EntryRaises(j) == CheckRaises(check_pattern(recent_colors, EngineRule(j)))

StateAfter(st, check) ==
    IF check.trigger = "True" THEN AfterTrigger(st)
    ELSE IF check.miss = "True" THEN AfterMiss(st)
    ELSE st

\* C17: in every round, each active rule whose own evaluation does not
\* fail has been evaluated against the outcome and its PatternState updated
\* as if no other rule had failed.
C17_FailureIsolated ==
    round_count > 0 =>
        \A j \in 1..Len(engine_patterns) :
            (EvaluatedOnce(EngineKey(j)) /\ ~EntryRaises(j)) =>
                pattern_stats_cache[EngineKey(j)]
                    = StateAfter(StatOf(prev_stats, EngineKey(j)),
                                 check_pattern(recent_colors, EngineRule(j)))

\* the same, for the rounds in which no rule fails
C17_EveryRuleEvaluatedWhenNoneFails ==
    (round_count > 0 /\ ~RoundFailed) =>
        \A j \in 1..Len(engine_patterns) :
            EvaluatedOnce(EngineKey(j)) =>
                pattern_stats_cache[EngineKey(j)]
                    = StateAfter(StatOf(prev_stats, EngineKey(j)),
                                 check_pattern(recent_colors, EngineRule(j)))

(***************************************************************************)
(* main.py under eventlet (specification SpecConcurrent).  The listener    *)
(* threads and the request handlers are green threads (lines 3-4, 36),     *)
(* and no lock guards process_round_patterns.  A handler runs until it     *)
(* blocks on a socket: with a webhook enabled, send_notification (lines    *)
(* 357-361) posts over HTTP inside check_and_fire_alert, in the middle of  *)
(* the loop of lines 487-518, and other handlers run meanwhile.            *)
(***************************************************************************)
MaxInFlight == 2

MaxConcRounds == 4

ConcStores ==
    { <<Row(WithAlerts(RuleEvery, Alerts(1, 1, 0)), TRUE), Row(RuleGaps, TRUE)>>,
      <<Row(WithAlerts(RuleEvery, Alerts(3, 2, 1)), TRUE)>> }

ConcInit ==
    /\ \E store \in ConcStores : \E hook \in BOOLEAN : InitSettings(store, hook)
    /\ NoMatchCall /\ NoExpandCall /\ NoReplaceCall /\ NoValidateCall

\* the results of lines 487-518 that a handler works off from result
\* `from` on before it blocks or ends: up to the first alert that is sent
\* when a webhook is enabled, all of them otherwise
Segment(results, from, round_number) ==
    LET rest == SubSeq(results, from, Len(results))
        all == AlertLoop(rest, 1, patterns_tbl, round_number,
                         [cooldowns |-> alert_cooldown_cache, alerts |-> <<>>,
                          evals |-> <<>>])
        sent == {i \in 1..Len(all.evals) : all.evals[i].fired}
        blocks == webhook /\ sent # {}
        n == IF blocks THEN CHOOSE i \in sent : \A k \in sent : i <= k
             ELSE Len(rest)
    IN  [taken |-> SubSeq(rest, 1, n), blocks |-> blocks, next |-> from + n]

SegmentOutcome(taken, round_number) ==
    AlertLoop(taken, 1, patterns_tbl, round_number,
              [cooldowns |-> alert_cooldown_cache, alerts |-> <<>>, evals |-> <<>>])

\* lines 487-518 from result `from` on, up to the next block or the end.
\* A row is taken as written when its statement runs.
WorkOff(results, from, round_number, held, done) ==
    \E seg \in {Segment(results, from, round_number)} :
    \E al \in {SegmentOutcome(seg.taken, round_number)} :
        /\ stats_tbl' = PersistStats(seg.taken, 1, stats_tbl)
        /\ sub_stats_tbl' = PersistSubStats(seg.taken, 1, sub_stats_tbl)
        /\ alert_cooldown_cache' = al.cooldowns
        /\ last_alerts' = al.alerts
        /\ last_evals' = al.evals
        /\ eval_log' = NextEvalLog(eval_log, al.evals, 1, round_number)
        /\ IF seg.blocks
           THEN /\ in_flight' = Append(held, [results |-> results, next |-> seg.next,
                                              round_number |-> round_number,
                                              done |-> done])
                /\ response' = "blocked"
           ELSE /\ in_flight' = held
                /\ response' = done

\* a handler takes an outcome and runs until it blocks or ends
BeginRound(color, done, failed) ==
    /\ round_count < MaxConcRounds
    /\ Len(in_flight) < MaxInFlight
    /\ StoreRound(color)
    /\ \E o \in {RoundOutcome(color, round_count + 1)} :
        /\ recent_colors' = o.colors
        /\ recent_rounds' = o.rounds
        /\ round_count' = round_count + 1
        /\ prev_stats' = pattern_stats_cache
        /\ pattern_stats_cache' = o.pr.stats
        /\ last_steps' = o.pr.steps
        /\ run_rounds' = NextRunRounds(run_rounds, o.pr.steps, DOMAIN o.pr.stats)
        /\ run_events' = NextRunEvents(run_events, o.pr.steps, 1)
        /\ IF o.pr.raised
           THEN /\ response' = failed
                /\ last_results' = <<>>
                /\ last_history' = {}
                /\ last_alerts' = <<>>
                /\ last_evals' = <<>>
                /\ UNCHANGED <<stats_tbl, sub_stats_tbl, alert_cooldown_cache,
                               eval_log, in_flight>>
           ELSE /\ last_results' = o.pr.results
                /\ last_history' =
                      HistoryRecords(pattern_stats_cache, o.pr.stats, o.colors, o.rounds)
                /\ WorkOff(o.pr.results, 1, round_count + 1, in_flight, done)
    /\ UNCHANGED <<patterns_tbl, engine_patterns, webhook, callVars>>

\* the blocked handler i is woken and runs until it blocks again or ends
ResumeRound(i) ==
    /\ i \in 1..Len(in_flight)
    /\ WorkOff(in_flight[i].results, in_flight[i].next, in_flight[i].round_number,
               SubSeq(in_flight, 1, i - 1) \o SubSeq(in_flight, i + 1, Len(in_flight)),
               in_flight[i].done)
    /\ UNCHANGED <<patterns_tbl, engine_patterns, webhook, callVars, recent_colors,
                   recent_rounds, rounds_tbl, round_count, prev_stats, pattern_stats_cache,
                   last_steps, run_rounds, run_events, last_results, last_history>>

ListenerRound ==
    \E value \in Values :
        BeginRound(get_color_from_value(value), "saved", "error printed")

ApiRound ==
    \E value \in Values : BeginRound(get_color_from_value(value), "201", "500")

Resume == \E i \in 1..MaxInFlight : ResumeRound(i)

ConcNext == ListenerRound \/ ApiRound \/ Resume

SpecConcurrent == ConcInit /\ [][ConcNext]_vars

\* C18: the processing of one outcome never interleaves with the
\* processing of another: while a round is in flight no other outcome has
\* been taken up.
C18_Serialized ==
    \A i \in 1..Len(in_flight) : in_flight[i].round_number = round_count

\* the same, under the default settings (no webhook)
C18_SerializedWithoutWebhook ==
    ~webhook => (in_flight = <<>> /\ C18_Serialized)

(***************************************************************************)
(* main.py: _is_valid_count_expr and _validate_rule_json.  The outcome is  *)
(* the pair (ok, err) the function returns, or raised = TRUE when the call *)
(* ends in an exception.  A rule of a request may carry a field "shapes":  *)
(* what the request has under 'trigger' and under 'miss', "object" (a dict *)
(* whose 'steps' is the list held in the rule), "null" (the key is there   *)
(* with the value None) or "steps_not_list" (a dict whose 'steps' is a     *)
(* str).  A rule without the field has objects in both places.             *)
(***************************************************************************)
\* True and False: isinstance(True, int) holds in Python
PyBool(b) == [t |-> "bool", n |-> IF b THEN 1 ELSE 0, s |-> <<>>]

\* a float with the value k
PyFloat(k) == [t |-> "float", n |-> k, s |-> <<>>]

\* lines 50-63
is_valid_count_expr(value) ==
    IF value.t \in {"int", "bool"} THEN value.n > 0
    ELSE IF value.t = "str"
    THEN LET v == Strip(value.s)
         IN  IF AllDigits(v) THEN DecValue(v) > 0
             ELSE IF Len(v) >= 2 /\ SubSeq(v, 1, 2) = <<"$", "X">>
             THEN LET rest == SubSeq(v, 3, Len(v))
                  IN  IF rest = <<>> THEN TRUE
                      ELSE IF Head(rest) \in {"+", "-"}
                      THEN AllDigits(Strip(Tail(rest)))
                      ELSE FALSE
             ELSE FALSE
    ELSE FALSE

allowed_colors == {"red", "green", "yellow", "green_yellow"}

allowed_ops == {"exact", "minimum", "maximum"}

ShapeOf(rule, path) ==
    IF "shapes" \in DOMAIN rule THEN rule.shapes[path] ELSE "object"

\* lines 82-91: the error of one step, "" when it has none
StepError(s, path) ==
    IF StepColors(s) = <<>> THEN path \o ".steps colors required"
    ELSE IF \E i \in 1..Len(StepColors(s)) : StepColors(s)[i] \notin allowed_colors
    THEN path \o ".steps contains invalid colors"
    ELSE IF StepOperator(s) \notin allowed_ops
    THEN path \o ".steps contains invalid operator"
    ELSE IF ~is_valid_count_expr(StepCountSpec(s))
    THEN path \o ".steps contains invalid count"
    ELSE ""

\* lines 76-92
validate_steps(rule, path) ==
    IF path \in rule.keys /\ ShapeOf(rule, path) = "null"
    THEN [ok |-> FALSE, err |-> "AttributeError", raised |-> TRUE]
    ELSE IF path \in rule.keys /\ ShapeOf(rule, path) = "steps_not_list"
    THEN [ok |-> FALSE, err |-> path \o ".steps must be a list", raised |-> FALSE]
    ELSE LET steps == RuleSteps(rule, path)
             bad == {j \in 1..Len(steps) : StepError(steps[j], path) # ""}
         IN  IF bad = {} THEN [ok |-> TRUE, err |-> "", raised |-> FALSE]
             ELSE LET j == CHOOSE k \in bad : \A l \in bad : k <= l
                  IN  [ok |-> FALSE, err |-> StepError(steps[j], path),
                       raised |-> FALSE]

Rejects(err) == [ok |-> FALSE, err |-> err, raised |-> FALSE]

\* lines 66-112
validate_rule_json(rule) ==
    IF RuleType(rule) \notin {"static", "dynamic"}
    THEN Rejects("type must be static or dynamic")
    ELSE IF "name" \notin rule.keys \/ Strip(rule.name) = <<>>
    THEN Rejects("name is required")
    ELSE IF ~validate_steps(rule, "trigger").ok THEN validate_steps(rule, "trigger")
    ELSE IF ~validate_steps(rule, "miss").ok THEN validate_steps(rule, "miss")
    ELSE IF RuleType(rule) = "dynamic"
    THEN LET dvs == IF "dynamic_values" \in rule.keys
                    THEN rule.dynamic_values ELSE <<>>
         IN  IF dvs = <<>>
             THEN Rejects("dynamic_values required for dynamic patterns")
             ELSE IF \E i \in 1..Len(dvs) : dvs[i] < 3 \/ dvs[i] > 8
             THEN Rejects("dynamic_values must be ints between 3 and 8")
             ELSE [ok |-> TRUE, err |-> "", raised |-> FALSE]
    ELSE [ok |-> TRUE, err |-> "", raised |-> FALSE]

(***************************************************************************)
(* Calls of _validate_rule_json: one call on each rule of ValidateRules,   *)
(* the rule_json objects of requests.                                      *)
(***************************************************************************)
WithoutKey(d, k) == [d EXCEPT !.keys = @ \ {k}]

GoodStep == Step(<<"red">>, "minimum", PyInt(1))

ValidateCounts ==
    { PyInt(1), PyInt(3), PyInt(0), PyInt(0 - 1), PyBool(TRUE), PyBool(FALSE),
      PyFloat(2), PyNone, PyStr(<<"2">>), PyStr(<<"0">>), PyStr(<<" ", "2">>),
      PyStr(<<>>), PyStr(<<"X">>), PyStr(<<"$", "X">>), XPlus(1), XMinus(2),
      PyStr(<<"$", "X", "+">>), PyStr(<<"$", "X", "+", " ", "1">>),
      PyStr(<<"$", "X", "*", "2">>) }

ValidateColors ==
    { <<>>, <<"blue">>, <<"red", "blue">>, <<"Red">>, <<"yellow">>,
      <<"green_yellow", "green">> }

ValidateSteps ==
    {Step(<<"red">>, "minimum", c) : c \in ValidateCounts}
        \cup {Step(<<"green">>, op, PyInt(1)) : op \in {"exact", "maximum", "weird", ""}}
        \cup {Step(cs, "exact", PyInt(2)) : cs \in ValidateColors}
        \cup {WithoutKey(GoodStep, k) : k \in {"colors", "operator", "count"}}

SecondSteps ==
    { Step(<<"red">>, "minimum", PyInt(0)), Step(<<"red">>, "minimum", PyBool(TRUE)),
      Step(<<"red">>, "weird", PyInt(1)), Step(<<>>, "exact", PyInt(1)),
      Step(<<"green">>, "exact", XMinus(2)) }

\* what a request has under 'trigger'
TriggerChoices ==
    {[shape |-> "object", steps |-> <<>>]}
        \cup {[shape |-> "object", steps |-> <<s>>] : s \in ValidateSteps}
        \cup {[shape |-> "object", steps |-> <<GoodStep, s>>] : s \in SecondSteps}
        \cup {[shape |-> sh, steps |-> <<>>] : sh \in {"null", "steps_not_list"}}

\* what a request has under 'miss'
MissChoices ==
    { [shape |-> "object", steps |-> <<>>],
      [shape |-> "object", steps |-> <<GoodStep>>],
      [shape |-> "object", steps |-> <<Step(<<"red">>, "any", PyInt(1))>>],
      [shape |-> "null", steps |-> <<>>] }

ValidateTypes == {"static", "dynamic", "weird"}

ValidateNames == {<<"A">>, <<>>, <<" ">>}

ValidateValues == {<<>>, <<3>>, <<3, 8>>, <<2>>, <<3, 9>>}

RuleKeys == {"type", "name", "treat_yellow_as_green", "trigger", "miss", "dynamic_values"}

\* the keys a request leaves out
AbsentKeys ==
    { {}, {"type"}, {"name"}, {"trigger"}, {"miss"}, {"dynamic_values"},
      {"trigger", "miss"} }

RequestRule(absent, type, name, trigger, miss, values) ==
    [keys |-> RuleKeys \ absent, type |-> type, name |-> name,
     treat_yellow_as_green |-> TRUE, trigger |-> trigger.steps,
     miss |-> miss.steps, dynamic_values |-> values, alerts |-> NoAlerts,
     active |-> TRUE, priority |-> 0, dynamic_x |-> 0,
     shapes |-> [trigger |-> trigger.shape, miss |-> miss.shape]]

ValidateRules ==
    { RequestRule(absent, type, name, trigger, miss, values) :
        absent \in AbsentKeys, type \in ValidateTypes, name \in ValidateNames,
        trigger \in TriggerChoices, miss \in MissChoices,
        values \in ValidateValues }

ValidateInit ==
    /\ InitStore(<<Row(RuleEvery, TRUE)>>)
    /\ NoMatchCall /\ NoExpandCall /\ NoReplaceCall
    /\ v_data = NoRequest
    /\ v_rule \in ValidateRules
    /\ v_out = [done |-> FALSE, ok |-> FALSE, err |-> "", raised |-> FALSE]

ValidateCall ==
    /\ ~v_out.done
    /\ v_out' = [done |-> TRUE, ok |-> validate_rule_json(v_rule).ok,
                 err |-> validate_rule_json(v_rule).err,
                 raised |-> validate_rule_json(v_rule).raised]
    /\ UNCHANGED <<storeVars, roundVars, v_rule, v_data, matchVars, expandVars, replaceVars,
                   simulateVars,
                   listenerVars>>

ValidateNext == ValidateCall

SpecValidate == ValidateInit /\ [][ValidateNext]_vars

\* the steps a rule has under 'trigger' and 'miss'
StepsUnder(rule) ==
    UNION {{rule[path][j] : j \in 1..Len(rule[path])} :
               path \in {"trigger", "miss"} \cap rule.keys}

\* a positive integer literal: an integer, or the digits of one
PositiveLiteral(count) ==
    \/ count.t = "int" /\ count.n > 0
    \/ count.t = "str" /\ AllDigits(Strip(count.s)) /\ DecValue(Strip(count.s)) > 0

\* the forms $X, $X+n and $X-n
SymbolicForm(count) ==
    /\ count.t = "str"
    /\ \E n \in 0..9 : Strip(count.s) \in
           { <<"$", "X">>, <<"$", "X", "+">> \o NatStr(n),
             <<"$", "X", "-">> \o NatStr(n),
             <<"$", "X", "+", " ">> \o NatStr(n) }

\* a step with one of the defects the claim lists; a step without an
\* operator or a count has the default of the matcher and no defect
DefectiveStep(s) ==
    \/ StepColors(s) = <<>>
    \/ \E i \in 1..Len(StepColors(s)) :
           StepColors(s)[i] \notin {"red", "green", "yellow", "green_yellow"}
    \/ "operator" \in s.keys /\ s.operator \notin {"exact", "minimum", "maximum"}
    \/ "count" \in s.keys /\ ~PositiveLiteral(s.count) /\ ~SymbolicForm(s.count)

\* a rule with one of the defects the claim lists
Defective(rule) ==
    \/ "type" \notin rule.keys \/ rule.type \notin {"static", "dynamic"}
    \/ "name" \notin rule.keys \/ Strip(rule.name) = <<>>
    \/ \E s \in StepsUnder(rule) : DefectiveStep(s)
    \/ /\ "type" \in rule.keys /\ rule.type = "dynamic"
       /\ \/ "dynamic_values" \notin rule.keys
          \/ rule.dynamic_values = <<>>
          \/ \E i \in 1..Len(rule.dynamic_values) :
                 rule.dynamic_values[i] \notin 3..8

Rejected(out) == out.done /\ ~out.ok /\ ~out.raised

Accepted(out) == out.done /\ out.ok /\ ~out.raised

\* C19: _validate_rule_json rejects every rule with a missing or
\* unrecognized type, an empty name, a trigger or miss step whose colors are
\* empty or hold an unknown token, whose operator is not exact, minimum or
\* maximum, or whose count is neither a positive integer literal nor $X,
\* $X+n, $X-n, and every dynamic rule with missing or empty dynamic_values
\* or a value outside 3..8; every other rule is accepted.
C19_RejectsExactly ==
    v_out.done => IF Defective(v_rule) THEN Rejected(v_out) ELSE Accepted(v_out)

\* a rule whose 'trigger' and 'miss' are objects with a list of steps
WellShaped(rule) ==
    \A path \in {"trigger", "miss"} \cap rule.keys : ShapeOf(rule, path) = "object"

\* the same, for the rules whose trigger and miss are objects with a list
\* of steps and whose counts are not booleans
C19_RejectsExactlyWellShaped ==
    (/\ v_out.done
     /\ WellShaped(v_rule)
     /\ \A s \in StepsUnder(v_rule) : s.count.t # "bool")
        => IF Defective(v_rule) THEN Rejected(v_out) ELSE Accepted(v_out)

\* a malformed trigger or miss ends the call in an exception or, when it
\* holds no list of steps, in a rejection; nothing else raises
C19_RaisesOnlyOnNull ==
    v_out.done =>
        (v_out.raised =>
            \E path \in {"trigger", "miss"} \cap v_rule.keys :
                ShapeOf(v_rule, path) = "null")

(***************************************************************************)
(* main.py: POST /api/patterns and PUT /api/patterns/<id>.  A request body *)
(* is a record: with_rule_json says whether it has a 'rule_json' (else the *)
(* handler builds the rule from the top-level fields), rule is that rule   *)
(* or those fields, active is the 'active' of the body ("absent" when it   *)
(* has none).  v_rule and v_out record the call of _validate_rule_json the *)
(* handler made.                                                           *)
(***************************************************************************)
MaxPatterns == 2

\* lines 623-624: {k: data.get(k) for k in [...]}; a field the body does not
\* have is None
FlatRule(fields) ==
    [keys |-> {"name", "type", "treat_yellow_as_green", "trigger", "miss", "active"},
     type |-> IF "type" \in fields.keys THEN fields.type ELSE "None",
     name |-> IF "name" \in fields.keys THEN fields.name ELSE <<>>,
     treat_yellow_as_green |->
         "treat_yellow_as_green" \in fields.keys /\ fields.treat_yellow_as_green,
     trigger |-> IF "trigger" \in fields.keys THEN fields.trigger ELSE <<>>,
     miss |-> IF "miss" \in fields.keys THEN fields.miss ELSE <<>>,
     dynamic_values |-> <<>>, alerts |-> NoAlerts, active |-> FALSE,
     priority |-> 0, dynamic_x |-> 0,
     shapes |-> [path \in {"trigger", "miss"} |->
                    IF path \in fields.keys THEN ShapeOf(fields, path) ELSE "null"]]

\* lines 622-624
RequestedRule(data) ==
    IF data.with_rule_json THEN data.rule ELSE FlatRule(data.rule)

\* data.get('active', rule.get('active', True)); the None of a rule built
\* from the top-level fields is stored as NULL, which is not active
RequestedActive(data) ==
    IF data.active # "absent" THEN data.active = "true"
    ELSE data.with_rule_json

\* Reload that leaves the engine's list as it is
Reload_KeepsEngine(tbl, stats, sub) ==
    /\ patterns_tbl' = tbl
    /\ stats_tbl' = stats
    /\ engine_patterns' = engine_patterns
    /\ sub_stats_tbl' = SubStatsAfterLoad(tbl, sub)
    /\ pattern_stats_cache' = CacheAfterLoad(tbl, stats, sub)

\* load_patterns_to_engine, lines 285-339, on the tables tbl, stats, sub
Reload(tbl, stats, sub) ==
    /\ patterns_tbl' = tbl
    /\ stats_tbl' = stats
    /\ engine_patterns' = EngineList(tbl, ActiveIds(tbl), 1)
    /\ sub_stats_tbl' = SubStatsAfterLoad(tbl, sub)
    /\ pattern_stats_cache' = CacheAfterLoad(tbl, stats, sub)

tableVars ==
    <<patterns_tbl, stats_tbl, sub_stats_tbl, engine_patterns, pattern_stats_cache>>

restVars ==
    <<recent_colors, recent_rounds, rounds_tbl, alert_cooldown_cache, round_count,
      last_results, last_history, last_alerts, last_steps, last_evals,
      prev_stats, run_rounds, run_events, eval_log, webhook, in_flight,
      matchVars, expandVars, replaceVars, simulateVars,
                   listenerVars>>

\* the outcome of the handler's validation: 400 with the reason, or 500
Refused(o) ==
    /\ response' = IF o.raised THEN "500" ELSE "400"
    /\ UNCHANGED tableVars

\* the id of the next row: one more than the largest in the table
LargestId(tbl) == CHOOSE m \in DOMAIN tbl : \A k \in DOMAIN tbl : k <= m

NextId(tbl) == IF DOMAIN tbl = {} THEN 1 ELSE 1 + LargestId(tbl)

\* lines 620-646
api_patterns_post(data) ==
    \E o \in {validate_rule_json(RequestedRule(data))} :
        /\ NextId(patterns_tbl) <= MaxPatterns
        /\ v_data' = data
        /\ v_rule' = RequestedRule(data)
        /\ v_out' = [done |-> TRUE, ok |-> o.ok, err |-> o.err, raised |-> o.raised]
        /\ IF ~o.ok THEN Refused(o)
           ELSE LET id == NextId(patterns_tbl)
                    row == [name |-> RequestedRule(data).name,
                            rule |-> RequestedRule(data),
                            active |-> RequestedActive(data), priority |-> 0]
                IN  /\ response' = "201"
                    /\ Reload([i \in (DOMAIN patterns_tbl) \cup {id} |->
                                  IF i = id THEN row ELSE patterns_tbl[i]],
                              [i \in (DOMAIN stats_tbl) \cup {id} |->
                                  IF i = id THEN ZeroStat ELSE stats_tbl[i]],
                              sub_stats_tbl)
        /\ UNCHANGED restVars

\* api_pattern_put that stores the rule before it validates it
api_pattern_put_StoresFirst(id, data) ==
    \E next_rule \in {IF data.with_rule_json THEN data.rule ELSE patterns_tbl[id].rule} :
    \E o \in {validate_rule_json(next_rule)} :
        /\ v_data' = data
        /\ v_rule' = next_rule
        /\ v_out' = [done |-> TRUE, ok |-> o.ok, err |-> o.err, raised |-> o.raised]
        /\ response' = IF o.raised THEN "500" ELSE IF o.ok THEN "200" ELSE "400"
        /\ Reload([patterns_tbl EXCEPT
                      ![id].rule = next_rule,
                      ![id].active = IF data.active = "absent" THEN @
                                     ELSE data.active = "true"],
                  stats_tbl, sub_stats_tbl)
        /\ UNCHANGED restVars

\* lines 672-687; the name and description set before the validation are
\* dropped with the session when the request ends without a commit
api_pattern_put(id, data) ==
    \E next_rule \in {IF data.with_rule_json THEN data.rule ELSE patterns_tbl[id].rule} :
    \E o \in {validate_rule_json(next_rule)} :
        /\ v_data' = data
        /\ v_rule' = next_rule
        /\ v_out' = [done |-> TRUE, ok |-> o.ok, err |-> o.err, raised |-> o.raised]
        /\ IF ~o.ok THEN Refused(o)
           ELSE /\ response' = "200"
                /\ Reload([patterns_tbl EXCEPT
                              ![id].rule = next_rule,
                              ![id].active = IF data.active = "absent" THEN @
                                             ELSE data.active = "true"],
                          stats_tbl, sub_stats_tbl)
        /\ UNCHANGED restVars

\* lines 661-670: the rows of the pattern go, then the engine is reloaded
api_pattern_delete(id) ==
    /\ response' = "204"
    /\ v_data' = NoRequest
    /\ v_rule' = RuleEvery
    /\ v_out' = [done |-> FALSE, ok |-> FALSE, err |-> "", raised |-> FALSE]
    /\ Reload([i \in (DOMAIN patterns_tbl) \ {id} |-> patterns_tbl[i]],
              [i \in (DOMAIN stats_tbl) \ {id} |-> stats_tbl[i]],
              [r \in {q \in DOMAIN sub_stats_tbl : q[1] # id} |-> sub_stats_tbl[r]])
    /\ UNCHANGED restVars

\* a rule with one trigger step, and a step of one red as its miss
OneStepRule(type, name, step, values) ==
    RequestRule({}, type, name, [shape |-> "object", steps |-> <<step>>],
                [shape |-> "object", steps |-> <<GoodStep>>], values)

\* the rule_json objects of the requests
RequestRules ==
    { WithAlerts(OneStepRule("static", <<"G">>, GoodStep, <<>>), Alerts(2, 2, 1)),
      OneStepRule("static", <<"G">>, Step(<<"red">>, "weird", PyInt(1)), <<>>),
      OneStepRule("dynamic", <<"H">>, Step(<<"red">>, "exact", XMinus(2)), <<3, 4>>),
      OneStepRule("dynamic", <<"H">>, Step(<<"red">>, "exact", XMinus(2)), <<9>>) }

\* the top-level fields of the requests without a rule_json: a whole rule,
\* and one that has no 'miss'
FlatFields ==
    { WithAlerts(OneStepRule("static", <<"G">>, GoodStep, <<>>), Alerts(2, 2, 1)),
      WithoutKey(OneStepRule("static", <<"I">>, GoodStep, <<>>), "miss") }

Requests ==
    {[with_rule_json |-> TRUE, rule |-> r, active |-> "absent"] : r \in RequestRules}
        \cup {[with_rule_json |-> FALSE, rule |-> r, active |-> "absent"] : r \in FlatFields}
        \cup {[with_rule_json |-> TRUE, active |-> "false",
               rule |-> WithAlerts(OneStepRule("static", <<"G">>, GoodStep, <<>>),
                                   Alerts(2, 2, 1))]}

ApiPatternsPost == \E data \in Requests : api_patterns_post(data)

ApiPatternPut ==
    \E id \in DOMAIN patterns_tbl : \E data \in Requests : api_pattern_put(id, data)

\* the stores the requests start from: one static rule, and a dynamic rule
\* with a rule that is not active
PatternStores ==
    { <<Row(WithAlerts(RuleEvery, Alerts(3, 2, 1)), TRUE)>>,
      <<Row(WithAlerts(RuleExactX, CooldownOnly(2)), TRUE),
        Row(WithAlerts(RuleEvery, Alerts(1, 1, 0)), FALSE)>> }

PatternsInit ==
    /\ \E store \in PatternStores : InitStore(store)
    /\ NoMatchCall /\ NoExpandCall /\ NoReplaceCall /\ NoValidateCall

ApiPatternDelete == \E id \in DOMAIN patterns_tbl : api_pattern_delete(id)

PatternsNext == ApiPatternsPost \/ ApiPatternPut \/ ApiPatternDelete

SpecPatterns == PatternsInit /\ [][PatternsNext]_vars

Range(s) == {s[i] : i \in 1..Len(s)}

\* every entry of the engine's list comes from the expansion of a stored
\* active rule that _validate_rule_json accepts
EngineFromAccepted ==
    \A i \in 1..Len(engine_patterns) :
        \E id \in DOMAIN patterns_tbl :
            /\ patterns_tbl[id].active
            /\ validate_rule_json(patterns_tbl[id].rule).ok
            /\ engine_patterns[i] \in Range(EngineEntries(id, patterns_tbl[id]))

\* C20: a rule that validation rejects is reported with a non-empty reason
\* and the rejected create or update leaves the stored rules and the
\* engine's loaded list unchanged; every rule in the engine's list is the
\* expansion of a rule that validation accepts.  Stated of every request:
\* the list it finds is made of accepted rules, and when it is rejected it
\* answers 400 with a reason and changes neither the table nor the list.
C20_RejectedNeverLoaded ==
    /\ []EngineFromAccepted
    /\ [][Rejected(v_out') =>
             /\ response' = "400"
             /\ v_out'.err # ""
             /\ patterns_tbl' = patterns_tbl
             /\ engine_patterns' = engine_patterns]_vars

\* a rejected update of a stored rule, after a create was accepted and loaded
C20_Witness ==
    /\ Rejected(v_out)
    /\ response = "400"
    /\ v_out.err = "trigger.steps contains invalid operator"
    /\ Cardinality(DOMAIN patterns_tbl) = 2
    /\ \E i \in 1..Len(engine_patterns) : engine_patterns[i][2].name = <<"G">>

(***************************************************************************)
(* The fields of a created rule (POST /api/patterns, main.py 620-646).     *)
(***************************************************************************)
RecognizedFields ==
    {"type", "name", "treat_yellow_as_green", "trigger", "miss", "dynamic_values", "alerts"}

\* every recognized field the submitted rule has is in the other rule, with
\* the same value
Preserves(submitted, rule) ==
    \A k \in RecognizedFields \cap submitted.keys :
        k \in rule.keys /\ rule[k] = submitted[k]

\* the id the last create gave its row
CreatedId == LargestId(patterns_tbl)

\* the engine entries of the created row when its rule is static
CreatedEntries ==
    {i \in 1..Len(engine_patterns) : engine_patterns[i][1] = StaticKey(CreatedId)}

\* C21: the rule stored by an accepted create, and the rule the engine
\* loads for it, have every recognized field of the submitted rule (type,
\* name, treat_yellow_as_green, trigger, miss, dynamic_values, alerts) with
\* the submitted value, whichever request shape carried the rule.
C21_FieldsPreserved ==
    response = "201" =>
        /\ Preserves(v_data.rule, patterns_tbl[CreatedId].rule)
        /\ \A i \in CreatedEntries : Preserves(v_data.rule, engine_patterns[i][2])

\* the same, for the requests that carry the rule under 'rule_json'
C21_FieldsPreservedInRuleJson ==
    (response = "201" /\ v_data.with_rule_json) =>
        /\ Preserves(v_data.rule, patterns_tbl[CreatedId].rule)
        /\ \A i \in CreatedEntries : Preserves(v_data.rule, engine_patterns[i][2])

(***************************************************************************)
(* A restart of the process: the module globals of main.py 38-47 are       *)
(* empty again and the startup of lines 1533-1535 loads the engine, the    *)
(* stats cache and the two buffers from the database.                      *)
(***************************************************************************)
\* Round.query.order_by(Round.id.desc()).limit(MAX_COLORS_BUFFER), reversed
LastRounds(rounds) ==
    SubSeq(rounds, Max(1, Len(rounds) - MAX_COLORS_BUFFER + 1), Len(rounds))

\* lines 341-347
load_recent_colors ==
    /\ recent_colors' = [i \in 1..Len(LastRounds(rounds_tbl)) |->
                            LastRounds(rounds_tbl)[i].color]
    /\ recent_rounds' = [i \in 1..Len(LastRounds(rounds_tbl)) |->
                            LastRounds(rounds_tbl)[i].round_number]

Restart ==
    /\ load_recent_colors
    /\ engine_patterns' = EngineList(patterns_tbl, ActiveIds(patterns_tbl), 1)
    /\ sub_stats_tbl' = SubStatsAfterLoad(patterns_tbl, sub_stats_tbl)
    /\ pattern_stats_cache' = CacheAfterLoad(patterns_tbl, stats_tbl, sub_stats_tbl)
    /\ alert_cooldown_cache' = EmptyMap
    /\ response' = "started"
    /\ UNCHANGED <<patterns_tbl, stats_tbl, rounds_tbl, round_count, webhook, in_flight,
                   last_results, last_history, last_alerts, last_steps, last_evals,
                   prev_stats, run_rounds, run_events, eval_log, callVars>>

RestartNext == OnCrashReceived \/ ApiRounds \/ Restart

SpecRestart == Init /\ [][RestartNext]_vars

\* C22: after every processed outcome and every reload the colour buffer
\* and the round-identifier buffer have the same length, and position i of
\* both belongs to one round: the stored round with the identifier at
\* position i has the colour at position i.
C22_ParallelBuffers ==
    /\ Len(recent_colors) = Len(recent_rounds)
    /\ \A i \in 1..Len(recent_rounds) :
           \E k \in 1..Len(rounds_tbl) :
               /\ rounds_tbl[k].round_number = recent_rounds[i]
               /\ rounds_tbl[k].color = recent_colors[i]

\* the buffers after an eviction and a reload: they hold fewer rounds than
\* arrived, with both colours among them
C22_Witness ==
    /\ response = "started"
    /\ Len(recent_rounds) = MAX_COLORS_BUFFER
    /\ Len(rounds_tbl) > MAX_COLORS_BUFFER
    /\ \E i, j \in 1..Len(recent_colors) : recent_colors[i] # recent_colors[j]

\* C23: the colour buffer never holds more than MAX_COLORS_BUFFER entries
\* and is, in arrival order, the most recent min(total, MAX_COLORS_BUFFER)
\* outcomes, so that an outcome that arrives at a full buffer evicts the
\* single oldest entry.
C23_MostRecentOutcomes ==
    /\ Len(recent_colors) <= MAX_COLORS_BUFFER
    /\ Len(recent_colors) =
          IF Len(rounds_tbl) < MAX_COLORS_BUFFER THEN Len(rounds_tbl)
          ELSE MAX_COLORS_BUFFER
    /\ \A i \in 1..Len(recent_colors) :
           recent_colors[i] =
               rounds_tbl[Len(rounds_tbl) - Len(recent_colors) + i].color

\* an outcome was processed at a full buffer
C23_Witness ==
    /\ response \in {"saved", "201"}
    /\ Len(rounds_tbl) = MAX_COLORS_BUFFER + 2
    /\ Len(recent_colors) = MAX_COLORS_BUFFER
    /\ recent_colors[1] # rounds_tbl[1].color

(***************************************************************************)
(* The engine's list after a create, an update or a delete.                *)
(***************************************************************************)
\* the fields of a loaded rule that come from the stored rule
LoadedFields == RecognizedFields \cup {"dynamic_x"}

SameRule(a, b) ==
    /\ a.keys \cap LoadedFields = b.keys \cap LoadedFields
    /\ \A k \in a.keys \cap LoadedFields : a[k] = b[k]

\* the rules the stored rule of a row stands for: its expansion when it is
\* dynamic, the rule itself otherwise
StandsFor(row) ==
    IF "type" \in row.rule.keys /\ row.rule.type = "dynamic"
    THEN expand_dynamic_pattern(row.rule)
    ELSE <<row.rule>>

RECURSIVE ClaimedList(_, _)
ClaimedList(tbl, ids) ==
    IF ids = <<>> THEN <<>>
    ELSE StandsFor(tbl[Head(ids)]) \o ClaimedList(tbl, Tail(ids))

\* a count that still has the symbol of a template
Symbolic(step) == step.count.t = "str" /\ ContainsX(step.count.s)

\* C24: after every create, update or delete the engine's list is the list
\* of the stored active rules with each dynamic rule replaced by its
\* expansion under its current definition: no dynamic template is loaded
\* unexpanded and no sub-rule of a changed or deleted definition remains.
C24_EngineIsExpansionOfStored ==
    \E claimed \in {ClaimedList(patterns_tbl, ActiveIds(patterns_tbl))} :
        /\ Len(engine_patterns) = Len(claimed)
        /\ \A i \in 1..Len(claimed) : SameRule(engine_patterns[i][2], claimed[i])
        /\ \A i \in 1..Len(engine_patterns) :
               engine_patterns[i][2].type = "dynamic" =>
                   /\ "dynamic_x" \in engine_patterns[i][2].keys
                   /\ \A j \in 1..Len(engine_patterns[i][2].trigger) :
                          ~Symbolic(engine_patterns[i][2].trigger[j])
                   /\ \A j \in 1..Len(engine_patterns[i][2].miss) :
                          ~Symbolic(engine_patterns[i][2].miss[j])

\* the row of a dynamic rule was updated to a static rule: the rows of its
\* sub-rules are still in pattern_sub_stats, the list holds the static rule
C24_Witness ==
    /\ response = "200"
    /\ \E id \in DOMAIN patterns_tbl :
           /\ patterns_tbl[id].active
           /\ patterns_tbl[id].rule.type = "static"
           /\ \E r \in DOMAIN sub_stats_tbl : r[1] = id

(***************************************************************************)
(* The longest streaks across rounds and reloads (specification            *)
(* SpecRestart).                                                           *)
(***************************************************************************)
\* the longest streaks of the keys that stay in the cache do not decrease
\* in a step
LongestKept ==
    \A k \in (DOMAIN pattern_stats_cache) \cap (DOMAIN pattern_stats_cache') :
        /\ pattern_stats_cache'[k].longest_trigger_streak >=
               pattern_stats_cache[k].longest_trigger_streak
        /\ pattern_stats_cache'[k].longest_miss_streak >=
               pattern_stats_cache[k].longest_miss_streak

\* C25: for every rule key, longest_trigger_streak and longest_miss_streak
\* never decrease, across processed outcomes and reloads.
C25_LongestNeverDecreases == [][LongestKept]_vars

\* no step of a loaded rule has a count that makes match_sequence raise
NoEntryRaises ==
    \A i \in 1..Len(engine_patterns) :
        \A path \in {"trigger", "miss"} :
            \A j \in 1..Len(engine_patterns[i][2][path]) :
                ~NotAnInteger(engine_patterns[i][2][path][j])

\* the same, for the stores in which no rule raises
C25_LongestNeverDecreasesWhenNoneRaises ==
    [][NoEntryRaises => LongestKept]_vars

(***************************************************************************)
(* Rounds in which a rule has no event, and inactive rules (specification  *)
(* Spec).                                                                  *)
(***************************************************************************)
\* neither sequence of entry j matches the buffer of the last round
NeitherMatches(j) ==
    \E check \in {check_pattern(recent_colors, EngineRule(j))} :
        check.trigger = "False" /\ check.miss = "False"

\* the keys that an inactive row would have
KeysOfRow(id) == {k \in DOMAIN pattern_stats_cache : BasePatternId(k) = id}

\* C26: when neither the trigger nor the miss sequence of an active rule
\* matches in a round, the PatternState of its key is what it was before
\* the round and no event is reported for the key; an inactive rule is not
\* evaluated and its state does not change.
C26_NoEventNoChange ==
    /\ round_count > 0 =>
          \A j \in 1..Len(engine_patterns) :
              NeitherMatches(j) =>
                  /\ pattern_stats_cache[EngineKey(j)] = StatOf(prev_stats, EngineKey(j))
                  /\ \A i \in 1..Len(last_results) :
                         last_results[i].pattern_id # EngineKey(j)
                  /\ \A i \in 1..Len(last_steps) :
                         last_steps[i].pattern_id = EngineKey(j) =>
                             /\ last_steps[i].event = "none"
                             /\ last_steps[i].after = last_steps[i].before
    /\ \A id \in DOMAIN patterns_tbl :
           ~patterns_tbl[id].active =>
               /\ KeysOfRow(id) = {}
               /\ stats_tbl[id] = ZeroStat
               /\ \A i \in 1..Len(last_steps) :
                      BasePatternId(last_steps[i].pattern_id) # id

\* a key with a running trigger streak had no event in the last round, in a
\* store that has an inactive rule
C26_Witness ==
    /\ response = "saved"
    /\ \E id \in DOMAIN patterns_tbl : ~patterns_tbl[id].active
    /\ \E j \in 1..Len(engine_patterns) :
           /\ NeitherMatches(j)
           /\ EngineKey(j) \in DOMAIN prev_stats
           /\ prev_stats[EngineKey(j)].trigger_streak > 0
           /\ \E i \in 1..Len(last_steps) : last_steps[i].pattern_id = EngineKey(j)

(***************************************************************************)
(* Adjacent steps and the end of the buffer (specification SpecMatch).     *)
(***************************************************************************)
\* the cursor at which step k of the call is checked when the steps after
\* it have passed
RECURSIVE CursorAt(_)
CursorAt(k) ==
    IF k = Len(m_steps) THEN Len(m_colors)
    ELSE CursorAt(k + 1)
           - Consume(m_colors, CursorAt(k + 1), StepColors(m_steps[k + 1]), m_tyag)

\* step k has the colour group of the step after it
SameGroupAsNext(k) ==
    /\ k \in 1..(Len(m_steps) - 1)
    /\ StepColors(m_steps[k]) = StepColors(m_steps[k + 1])

\* step k asks for at least one outcome
NeedsOutcome(k) ==
    /\ StepOperator(m_steps[k]) \in {"exact", "minimum"}
    /\ ResolveCount(StepCountSpec(m_steps[k])).r = "ok"
    /\ ResolveCount(StepCountSpec(m_steps[k])).n >= 1

\* C27: of two adjacent steps with the same colour group the earlier one
\* consumes no outcome, the later one having consumed the whole run; the
\* match fails whenever the earlier step is exact or minimum with a count
\* of at least 1, however long the run is.
C27_SameGroupNeighbour ==
    m_result # "none" =>
        \A k \in 1..Len(m_steps) :
            SameGroupAsNext(k) =>
                /\ Consume(m_colors, CursorAt(k), StepColors(m_steps[k]), m_tyag) = 0
                /\ NeedsOutcome(k) => m_result # "True"

\* a buffer of reds longer than the two counts together, and two steps of
\* red that ask for one each
C27_Witness ==
    /\ m_result = "False"
    /\ Len(m_colors) >= 3
    /\ \A i \in 1..Len(m_colors) : m_colors[i] = "red"
    /\ m_steps = <<Step(<<"red">>, "minimum", PyInt(1)),
                   Step(<<"red">>, "minimum", PyInt(1))>>

\* step j of the call passes when it is checked at CursorAt(j)
StepPasses(j) ==
    LET cnt == ResolveCount(StepCountSpec(m_steps[j]))
    IN  /\ CursorAt(j) >= 1
        /\ cnt.r = "ok"
        /\ OperatorHolds(StepOperator(m_steps[j]),
                         Consume(m_colors, CursorAt(j), StepColors(m_steps[j]), m_tyag),
                         cnt.n)

\* step k is still to be checked when the buffer has been consumed
BufferConsumedBefore(k) ==
    /\ k \in 1..Len(m_steps)
    /\ CursorAt(k) = 0
    /\ \A j \in (k + 1)..Len(m_steps) : StepPasses(j)

\* step k accepts zero consumed outcomes
AcceptsZero(k) ==
    LET cnt == ResolveCount(StepCountSpec(m_steps[k]))
    IN  cnt.r = "ok" /\ OperatorHolds(StepOperator(m_steps[k]), 0, cnt.n)

\* C28: when the whole buffer has been consumed and a step is still
\* unchecked, match_sequence returns false, also when every remaining step
\* would accept zero consumed outcomes.
C28_FalseWhenBufferConsumed ==
    m_result # "none" =>
        \A k \in 1..Len(m_steps) : BufferConsumedBefore(k) => m_result = "False"

\* two reds consumed by the last step, and a first step of at most two
\* reds, which zero outcomes would satisfy
C28_Witness ==
    /\ m_result = "False"
    /\ m_colors = <<"red", "red">>
    /\ m_steps = <<Step(<<"red">>, "maximum", PyInt(2)),
                   Step(<<"red">>, "minimum", PyInt(1))>>
    /\ BufferConsumedBefore(1)
    /\ AcceptsZero(1)

\* a finished call with the single step "minimum 1" of the group
\* ['green_yellow'] on a buffer that is not empty
OneGreenYellowStep ==
    /\ m_result # "none"
    /\ m_colors # <<>>
    /\ m_steps = <<Step(<<"green_yellow">>, "minimum", PyInt(1))>>

\* C29: an outcome matches the group member green_yellow exactly when it is
\* green or yellow, with treat_yellow_as_green set or not; a red outcome
\* never matches it.
C29_GreenYellowMember ==
    /\ OneGreenYellowStep =>
          (m_result = "True" <=> LastOutcome \in {"green", "yellow"})
    /\ \A c \in Colors, flag \in BOOLEAN :
          color_matches_group(c, <<"green_yellow">>, flag)
              <=> c \in {"green", "yellow"}

\* a yellow outcome matches green_yellow with the flag not set
C29_Witness ==
    /\ OneGreenYellowStep
    /\ ~m_tyag
    /\ LastOutcome = "yellow"
    /\ m_result = "True"

MaxReloadRounds == 2

\* a rule followed by the rule whose sub-rule raises
ReloadStores ==
    { <<Row(WithAlerts(RuleGaps, Alerts(2, 2, 1)), TRUE), Row(RuleNoCount, TRUE)>> }

\* a static rule that is deactivated, and a dynamic rule
ReloadRequests ==
    { [with_rule_json |-> TRUE, active |-> "false",
       rule |-> WithAlerts(OneStepRule("static", <<"G">>, GoodStep, <<>>),
                           Alerts(2, 2, 1))],
      [with_rule_json |-> TRUE, active |-> "absent",
       rule |-> OneStepRule("dynamic", <<"H">>,
                            Step(<<"red">>, "exact", XMinus(2)), <<3, 4>>)] }

ReloadInit ==
    /\ \E store \in ReloadStores : InitStore(store)
    /\ NoMatchCall /\ NoExpandCall /\ NoReplaceCall /\ NoValidateCall

ReloadRound == round_count < MaxReloadRounds /\ OnCrashReceived

ReloadPost == \E data \in ReloadRequests : api_patterns_post(data)

ReloadPut ==
    \E id \in DOMAIN patterns_tbl : \E data \in ReloadRequests : api_pattern_put(id, data)

ReloadNext == ReloadRound \/ ReloadPost \/ ReloadPut \/ ApiPatternDelete

SpecReload == ReloadInit /\ [][ReloadNext]_vars

\* a step in which a rule request completed and reloaded the engine
Reloaded ==
    /\ round_count' = round_count
    /\ response' \in {"200", "201", "204"}

LoadedKeys(engine) == {engine[j][1] : j \in 1..Len(engine)}

\* the keys loaded before and after the step have the PatternState they had
StatesKept ==
    \A k \in LoadedKeys(engine_patterns) \cap LoadedKeys(engine_patterns') :
        StatOf(pattern_stats_cache', k) = StatOf(pattern_stats_cache, k)

\* the stored states of the rules that are still in the table are still
\* there, with the values they had
RowsKept ==
    \A id \in (DOMAIN patterns_tbl) \cap (DOMAIN patterns_tbl') :
        /\ id \in DOMAIN stats_tbl =>
              id \in DOMAIN stats_tbl' /\ stats_tbl'[id] = stats_tbl[id]
        /\ \A q \in DOMAIN sub_stats_tbl :
              q[1] = id => q \in DOMAIN sub_stats_tbl' /\ sub_stats_tbl'[q] = sub_stats_tbl[q]

\* C31: a reload after a rule create, update, deactivation or delete keeps
\* the PatternState of every rule key loaded before and after it, and a
\* PatternState disappears only when its owning rule is deleted.
C31_ReloadKeepsStates ==
    [][Reloaded => StatesKept /\ RowsKept]_vars

\* the same, for reloads made while no loaded rule raises
C31_ReloadKeepsStatesWhenNoneRaises ==
    [][(NoEntryRaises /\ Reloaded) => StatesKept /\ RowsKept]_vars

(***************************************************************************)
(* Rules whose trigger and miss sequences can match the same buffer        *)
(* (specification SpecOverlap).                                            *)
(***************************************************************************)
\* two reds or more are a trigger, one red or more a miss
RuleOverlap ==
    StaticRule(<<"J">>, TRUE,
               <<Step(<<"red">>, "minimum", PyInt(2))>>,
               <<Step(<<"red">>, "minimum", PyInt(1))>>)

\* the same as a dynamic rule
RuleOverlapX(values) ==
    DynamicRule(<<"K">>, TRUE,
                <<Step(<<"red">>, "minimum", XMinus(1))>>,
                <<Step(<<"red">>, "minimum", XMinus(2))>>,
                values)

OverlapStores ==
    { <<Row(WithAlerts(RuleOverlap, Alerts(2, 2, 1)), TRUE), Row(RuleEvery, TRUE)>>,
      <<Row(RuleOverlapX(<<3, 4>>), TRUE)>>,
      <<Row(RuleOverlapX(<<3, 3>>), TRUE)>> }

OverlapInit ==
    /\ \E store \in OverlapStores : InitStore(store)
    /\ NoMatchCall /\ NoExpandCall /\ NoReplaceCall /\ NoValidateCall

OverlapNext == OnCrashReceived \/ ApiRounds

SpecOverlap == OverlapInit /\ [][OverlapNext]_vars

\* the trigger and the miss sequence of entry j both match the buffer of
\* the last round
BothMatch(j) ==
    \E check \in {check_pattern(recent_colors, EngineRule(j))} :
        check.trigger = "True" /\ check.miss = "True"

\* in the last round the key k had one event, a trigger, and its trigger
\* streak advanced while its miss streak was reset
TriggerOnly(k) ==
    /\ Cardinality(EventsOf(k)) = 1
    /\ \A i \in EventsOf(k) : last_steps[i].event = "trigger"
    /\ Cardinality({i \in 1..Len(last_results) : last_results[i].pattern_id = k}) = 1
    /\ \A i \in 1..Len(last_results) :
           last_results[i].pattern_id = k => last_results[i].event = "trigger"
    /\ pattern_stats_cache[k].trigger_streak = StatOf(prev_stats, k).trigger_streak + 1
    /\ pattern_stats_cache[k].miss_streak = 0

\* C32: when both the trigger and the miss sequence of a rule key match the
\* buffer, process_round reports exactly one event for the key, the
\* trigger event, and the trigger streak advances while the miss streak is
\* reset.
C32_TriggerWins ==
    round_count > 0 =>
        \A j \in 1..Len(engine_patterns) : BothMatch(j) => TriggerOnly(EngineKey(j))

\* the same, for the keys that the loaded list holds once
C32_TriggerWinsUniqueKeys ==
    round_count > 0 =>
        \A j \in 1..Len(engine_patterns) :
            (BothMatch(j) /\ EvaluatedOnce(EngineKey(j))) => TriggerOnly(EngineKey(j))

(***************************************************************************)
(* The cooldown counters that an alert evaluation leaves alone             *)
(* (specification Spec).                                                   *)
(***************************************************************************)
AlertKinds == {"trigger_streak", "miss_streak"}

\* the counter that the evaluation e consults
CounterKeyOf(e) == CooldownKey(e.pattern_id, AlertType(e.event))

\* the counters other than ck are after the evaluation e what they were
OthersKept(e, ck) ==
    /\ (DOMAIN e.after) \ {ck} = (DOMAIN e.before) \ {ck}
    /\ \A other \in (DOMAIN e.before) \ {ck} : e.after[other] = e.before[other]

\* the evaluations of the round of this step
EligibleKeys(evals) == {CounterKeyOf(evals[j]) : j \in {i \in 1..Len(evals) : evals[i].eligible}}

\* C33: an alert evaluation that is not eligible leaves every cooldown
\* counter unchanged, and an eligible evaluation for one (rule key, alert
\* kind) changes only the counter of that pair: the two kinds of a key, and
\* different keys, have counters of their own.
C33_CooldownFrame ==
    [][/\ \A j \in 1..Len(last_evals') :
             LET e == last_evals'[j]
             IN  /\ ~e.eligible => e.after = e.before
                 /\ e.eligible => OthersKept(e, CounterKeyOf(e))
       /\ \A ck \in (DOMAIN alert_cooldown_cache) \cup (DOMAIN alert_cooldown_cache') :
             ck \notin EligibleKeys(last_evals') =>
                 /\ ck \in DOMAIN alert_cooldown_cache
                 /\ ck \in DOMAIN alert_cooldown_cache'
                 /\ alert_cooldown_cache'[ck] = alert_cooldown_cache[ck]
       /\ \A k1, k2 \in DOMAIN pattern_stats_cache : \A t1, t2 \in AlertKinds :
             CooldownKey(k1, t1) = CooldownKey(k2, t2) => k1 = k2 /\ t1 = t2]_vars

\* an eligible trigger evaluation of a key changes its trigger counter
\* while the positive miss counter of the same key stays
C33_Witness ==
    \E j \in 1..Len(last_evals) :
        LET e == last_evals[j]
            miss == CooldownKey(e.pattern_id, "miss_streak")
        IN  /\ e.eligible /\ e.event = "trigger"
            /\ miss \in DOMAIN e.before /\ e.before[miss] > 0
            /\ e.after[miss] = e.before[miss]
            /\ e.after # e.before
            /\ alert_cooldown_cache[miss] > 0

(***************************************************************************)
(* The order of the counters of a PatternState (specification Spec).       *)
(***************************************************************************)
Ordered(st) ==
    /\ 0 <= st.trigger_streak
    /\ st.trigger_streak <= st.longest_trigger_streak
    /\ st.longest_trigger_streak <= st.total_triggers
    /\ 0 <= st.miss_streak
    /\ st.miss_streak <= st.longest_miss_streak
    /\ st.longest_miss_streak <= st.total_misses

\* every PatternState of the cache, of the last results and of the stored
\* rows is ordered
AllOrdered ==
    /\ \A k \in DOMAIN pattern_stats_cache : Ordered(pattern_stats_cache[k])
    /\ \A i \in 1..Len(last_results) : Ordered(last_results[i].stats)
    /\ \A i \in 1..Len(last_steps) : Ordered(last_steps[i].after)
    /\ \A id \in DOMAIN stats_tbl : Ordered(stats_tbl[id])
    /\ \A q \in DOMAIN sub_stats_tbl : Ordered(sub_stats_tbl[q])

\* the totals of every key are in the next state at least what they are
TotalsKept ==
    \A k \in DOMAIN pattern_stats_cache :
        /\ k \in DOMAIN pattern_stats_cache'
        /\ pattern_stats_cache'[k].total_triggers >= pattern_stats_cache[k].total_triggers
        /\ pattern_stats_cache'[k].total_misses >= pattern_stats_cache[k].total_misses

PositiveInteger(step) ==
    /\ "count" \in step.keys
    /\ step.count.t = "int"
    /\ step.count.n >= 1

\* the steps of the sub-rules that the call returned
ReturnedSteps ==
    UNION {Range(e_out.rules[i].trigger) \cup Range(e_out.rules[i].miss) :
           i \in 1..Len(e_out.rules)}

ValidatedDynamic ==
    /\ e_out.done
    /\ RuleType(e_rule) = "dynamic"
    /\ validate_rule_json(e_rule).ok

\* C35: for a dynamic rule that _validate_rule_json accepts, every step
\* count of every sub-rule that expand_dynamic_pattern returns is a
\* positive integer.
C35_PositiveCounts ==
    ValidatedDynamic => \A s \in ReturnedSteps : PositiveInteger(s)

\* a count that stays positive for every admissible X: a positive integer,
\* or '$X', '$X+k' or '$X-k' with k below the least admissible value 3
StaysPositive(step) ==
    /\ "count" \in step.keys
    /\ \/ step.count.t = "int" /\ step.count.n >= 1
       \/ \E f \in SymbolicCounts : f.count = step.count /\ 3 + f.plus >= 1

\* the same, for the rules whose counts stay positive for every admissible X
C35_PositiveCountsWhenAboveZero ==
    (/\ ValidatedDynamic
     /\ \A s \in Range(e_rule.trigger) \cup Range(e_rule.miss) : StaysPositive(s))
        => \A s \in ReturnedSteps : PositiveInteger(s)

(***************************************************************************)
(* POST /api/patterns/<id>/simulate (specification SpecSimulate): the      *)
(* stored rule is replayed over the stored rounds, oldest first.  s_out    *)
(* holds the answer: the name, total_rounds and one entry per sub-rule     *)
(* (the two rates of an entry are its totals over total_rounds and are not *)
(* kept); raised stands for the exception that leaves the handler.         *)
(***************************************************************************)
\* lines 1056-1061
SimZero ==
    [triggers |-> 0, misses |-> 0, trigger_streak |-> 0, miss_streak |-> 0,
     max_trigger_streak |-> 0, max_miss_streak |-> 0]

\* lines 1067-1078
SimStep(c, check) ==
    IF check.trigger = "True"
    THEN [c EXCEPT !.triggers = @ + 1,
                   !.trigger_streak = @ + 1,
                   !.miss_streak = 0,
                   !.max_trigger_streak = Max(@, c.trigger_streak + 1)]
    ELSE IF check.miss = "True"
    THEN [c EXCEPT !.misses = @ + 1,
                   !.miss_streak = @ + 1,
                   !.trigger_streak = 0,
                   !.max_miss_streak = Max(@, c.miss_streak + 1)]
    ELSE c

\* lines 1063-1078: the windows colors[:i] from i on
RECURSIVE SimLoop(_, _, _, _)
SimLoop(colors, r, i, c) ==
    IF i > Len(colors) THEN [raised |-> FALSE, c |-> c]
    ELSE LET check == check_pattern(SubSeq(colors, 1, i), r)
         IN  IF CheckRaises(check) THEN [raised |-> TRUE, c |-> c]
             ELSE SimLoop(colors, r, i + 1, SimStep(c, check))

\* lines 1080-1088
SimEntry(r, pattern_name, c) ==
    [name |-> IF "name" \in r.keys THEN r.name ELSE pattern_name,
     total_triggers |-> c.triggers,
     total_misses |-> c.misses,
     max_trigger_streak |-> c.max_trigger_streak,
     max_miss_streak |-> c.max_miss_streak]

\* lines 1043-1047
RulesToTest(rule) ==
    IF RuleType(rule) = "dynamic" THEN expand_dynamic_pattern(rule) ELSE <<rule>>

\* Round.query.order_by(Round.id.asc()).limit(limit)
FirstColors(rounds, limit) ==
    [i \in 1..(IF Len(rounds) < limit THEN Len(rounds) ELSE limit) |-> rounds[i].color]

\* lines 1032-1090
api_pattern_simulate(id, limit) ==
    \E colors \in {FirstColors(rounds_tbl, limit)} :
    \E tests \in {RulesToTest(patterns_tbl[id].rule)} :
    \E outs \in {[i \in 1..Len(tests) |-> SimLoop(colors, tests[i], 1, SimZero)]} :
        /\ IF \E i \in 1..Len(outs) : outs[i].raised
           THEN /\ response' = "500"
                /\ s_out' = [NoSimulation EXCEPT !.done = TRUE, !.raised = TRUE, !.id = id]
           ELSE /\ response' = "200"
                /\ s_out' = [done |-> TRUE, raised |-> FALSE, id |-> id,
                             pattern_name |-> patterns_tbl[id].name,
                             total_rounds |-> Len(colors),
                             sub_patterns |->
                                [i \in 1..Len(tests) |->
                                    SimEntry(tests[i], patterns_tbl[id].name, outs[i].c)]]
        /\ UNCHANGED <<tableVars, recent_colors, recent_rounds, rounds_tbl,
                       alert_cooldown_cache, round_count, last_results, last_history,
                       last_alerts, last_steps, last_evals, prev_stats, run_rounds,
                       run_events, eval_log, webhook, in_flight,
                       matchVars, expandVars, replaceVars, validateVars,
                       listenerVars>>

\* the default limit, and a limit below the number of stored rounds
SimLimits == {2, 500}

ApiPatternSimulate ==
    \E id \in DOMAIN patterns_tbl : \E limit \in SimLimits : api_pattern_simulate(id, limit)

\* two static rules, a dynamic rule whose values repeat, a dynamic rule
\* with a rule that is not active, and a rule with the rule that raises
SimStores ==
    { <<Row(RuleEvery, TRUE), Row(WithAlerts(RuleGaps, CooldownOnly(0)), TRUE)>>,
      <<Row(RuleRepeat, TRUE)>>,
      <<Row(WithAlerts(RuleExactX, CooldownOnly(2)), TRUE),
        Row(WithAlerts(RuleEvery, Alerts(1, 1, 0)), FALSE)>>,
      <<Row(WithAlerts(RuleGaps, Alerts(2, 2, 1)), TRUE), Row(RuleNoCount, TRUE)>> }

SimInit ==
    /\ \E store \in SimStores : InitStore(store)
    /\ NoMatchCall /\ NoExpandCall /\ NoReplaceCall /\ NoValidateCall

SimNext == OnCrashReceived \/ ApiPatternSimulate

SpecSimulate == SimInit /\ [][SimNext]_vars

\* the key that the engine gives sub-rule i of the simulated rule
LiveKey(id, i) ==
    LET rule == patterns_tbl[id].rule
    IN  IF RuleType(rule) = "dynamic"
        THEN DynamicKey(id, SubKey(RulesToTest(rule)[i].dynamic_x))
        ELSE StaticKey(id)

\* the answer is of a replay of all the outcomes received so far, no more
\* than the buffer holds, for a rule that is loaded
ReplayOfAll ==
    /\ s_out.done /\ ~s_out.raised
    /\ s_out.total_rounds = round_count
    /\ round_count <= MAX_COLORS_BUFFER
    /\ patterns_tbl[s_out.id].active

Agrees(entry, st) ==
    /\ entry.total_triggers = st.total_triggers
    /\ entry.total_misses = st.total_misses
    /\ entry.max_trigger_streak = st.longest_trigger_streak
    /\ entry.max_miss_streak = st.longest_miss_streak

\* C36: for outcomes no more than the buffer cap, the replay of simulate
\* gives each rule the total triggers, total misses and longest trigger and
\* miss streaks that the PatternState of the rule has after the same
\* outcomes went one at a time through process_round from all zeros.
C36_SimulateAgrees ==
    ReplayOfAll =>
        \A i \in 1..Len(s_out.sub_patterns) :
            Agrees(s_out.sub_patterns[i], StatOf(pattern_stats_cache, LiveKey(s_out.id, i)))

\* the same, for the keys that the loaded list holds once
C36_SimulateAgreesUniqueKeys ==
    ReplayOfAll =>
        \A i \in 1..Len(s_out.sub_patterns) :
            EvaluatedOnce(LiveKey(s_out.id, i)) =>
                Agrees(s_out.sub_patterns[i],
                       StatOf(pattern_stats_cache, LiveKey(s_out.id, i)))

(***************************************************************************)
(* The listener (bc_game_listener.py).  start() runs connect() in          *)
(* ws_thread: the websocket handler on_message first and, once the socket  *)
(* has closed, poll_crash_history.  Three seconds later start() runs a     *)
(* second poll_crash_history in poll_thread unless the socket has          *)
(* subscribed by then.  All of them call handle_crash, which compares the  *)
(* value with last_crash_value and nothing else.  The results of the game  *)
(* are numbered in `source'; their values come from CrashValues.  The      *)
(* server sends the message of a result after the subscription, in order   *)
(* and once; the history answers with the latest result at the time of the *)
(* request.  The simulated rounds of run_simulation_round are left out:    *)
(* they are not results of the source.                                     *)
(***************************************************************************)
MaxSourceRounds == 3

CrashValues == {2, 5}

ListenerThreads == {"ws_thread", "poll_thread"}

otherVars ==
    <<storeVars, roundVars, matchVars, expandVars, replaceVars, validateVars,
      simulateVars>>

\* where a thread continues when handle_crash returns
LoopPc(t) == IF bc_listener[t].loop = "ws" THEN "recv" ELSE "poll"

\* the game ends a round with value v
SourceReports(v) ==
    /\ Len(bc_listener.source) < MaxSourceRounds
    /\ bc_listener' = [bc_listener EXCEPT !.source = Append(@, v)]
    /\ UNCHANGED otherVars

\* start, lines 302-308: running is set and connect runs in ws_thread
start ==
    /\ bc_listener.start_pc = "init"
    /\ bc_listener' = [bc_listener EXCEPT !.running = TRUE,
                                          !.start_pc = "sleep",
                                          !.ws_thread.pc = "recv"]
    /\ UNCHANGED otherVars

\* start, lines 310-316: after the sleep the second loop is started unless
\* the socket has subscribed
StartFallback ==
    /\ bc_listener.start_pc = "sleep"
    /\ bc_listener' =
          [bc_listener EXCEPT
              !.start_pc = "done",
              !.poll_thread.pc = IF bc_listener.subscribed THEN @ ELSE "poll"]
    /\ UNCHANGED otherVars

\* on_message, lines 172-175, and subscribe_to_crash, lines 224-242
subscribe_to_crash ==
    /\ bc_listener.ws_thread.pc = "recv"
    /\ ~bc_listener.subscribed
    /\ bc_listener' = [bc_listener EXCEPT !.subscribed = TRUE]
    /\ UNCHANGED otherVars

\* on_close, lines 250-255, then connect, lines 293-300: the thread of the
\* socket goes on with poll_crash_history
on_close ==
    /\ bc_listener.ws_thread.pc = "recv"
    /\ bc_listener.running
    /\ bc_listener' = [bc_listener EXCEPT !.subscribed = FALSE,
                                          !.ws_thread.pc = "poll",
                                          !.ws_thread.loop = "poll"]
    /\ UNCHANGED otherVars

\* on_message, lines 181-201: the message of the next result arrives and
\* handle_crash is called with its value
on_message ==
    /\ bc_listener.ws_thread.pc = "recv"
    /\ bc_listener.subscribed
    /\ bc_listener.ws_seen < Len(bc_listener.source)
    /\ bc_listener' =
          [bc_listener EXCEPT
              !.ws_seen = @ + 1,
              !.ws_thread.pc = "called",
              !.ws_thread.call =
                  [round |-> bc_listener.ws_seen + 1,
                   value |-> bc_listener.source[bc_listener.ws_seen + 1]]]
    /\ UNCHANGED otherVars

\* poll_crash_history, lines 109-114: the history is fetched, latest is its
\* first entry
PollFetch(t) ==
    /\ bc_listener[t].pc = "poll"
    /\ bc_listener.running
    /\ Len(bc_listener.source) > 0
    /\ bc_listener' =
          [bc_listener EXCEPT
              ![t].pc = "fetched",
              ![t].call =
                  [round |-> Len(bc_listener.source),
                   value |-> bc_listener.source[Len(bc_listener.source)]]]
    /\ UNCHANGED otherVars

\* poll_crash_history, lines 116-125: the fetched value is compared with
\* last_crash_value; then the loop sleeps
PollTest(t) ==
    /\ bc_listener[t].pc = "fetched"
    /\ IF bc_listener[t].call.value # bc_listener.last_crash_value
       THEN bc_listener' = [bc_listener EXCEPT ![t].pc = "called"]
       ELSE bc_listener' =
              [bc_listener EXCEPT ![t].pc = "poll",
                                  !.heard = @ \cup {bc_listener[t].call.round}]
    /\ UNCHANGED otherVars

\* handle_crash, lines 214-216
HandleTest(t) ==
    /\ bc_listener[t].pc = "called"
    /\ IF bc_listener[t].call.value = bc_listener.last_crash_value
       THEN bc_listener' =
              [bc_listener EXCEPT ![t].pc = LoopPc(t),
                                  !.heard = @ \cup {bc_listener[t].call.round}]
       ELSE bc_listener' = [bc_listener EXCEPT ![t].pc = "deliver"]
    /\ UNCHANGED otherVars

\* handle_crash, lines 218-222
HandleDeliver(t) ==
    /\ bc_listener[t].pc = "deliver"
    /\ bc_listener' =
          [bc_listener EXCEPT
              !.last_crash_value = bc_listener[t].call.value,
              !.delivered = Append(@, bc_listener[t].call),
              !.heard = @ \cup {bc_listener[t].call.round},
              ![t].pc = LoopPc(t)]
    /\ UNCHANGED otherVars

handle_crash(t) == HandleTest(t) \/ HandleDeliver(t)

poll_crash_history(t) == PollFetch(t) \/ PollTest(t)

ListenerInit ==
    /\ InitStore(<<Row(RuleEvery, TRUE)>>)
    /\ NoMatchCall /\ NoExpandCall /\ NoReplaceCall /\ NoValidateCall

ListenerNext ==
    \/ \E v \in CrashValues : SourceReports(v)
    \/ start
    \/ StartFallback
    \/ subscribe_to_crash
    \/ on_close
    \/ on_message
    \/ \E t \in ListenerThreads : poll_crash_history(t)
    \/ \E t \in ListenerThreads : handle_crash(t)

SpecListener == ListenerInit /\ [][ListenerNext]_vars

\* the number of calls of the callback for round r
Times(r) ==
    Cardinality({i \in 1..Len(bc_listener.delivered) :
                    bc_listener.delivered[i].round = r})

\* no result is passed to the callback twice
NeverTwice == \A r \in 1..Len(bc_listener.source) : Times(r) <= 1

\* a result whose report a loop has handled to the end has been passed
NeverDropped == \A r \in bc_listener.heard : Times(r) >= 1

\* C37: under any interleaving of the websocket handler and the polling
\* loops every result of the source is passed to the callback exactly
\* once: never twice, and never dropped because its value equals the value
\* delivered before.
C37_ExactlyOnce == NeverTwice /\ NeverDropped

\* What the listener does keep: last_crash_value is the value of the last
\* call of the callback and every call passes a result of the source with
\* its value.
C37_LastValueIsLastDelivered ==
    /\ bc_listener.last_crash_value =
          IF bc_listener.delivered = <<>> THEN 0
          ELSE bc_listener.delivered[Len(bc_listener.delivered)].value
    /\ \A i \in 1..Len(bc_listener.delivered) :
          /\ bc_listener.delivered[i].round \in 1..Len(bc_listener.source)
          /\ bc_listener.source[bc_listener.delivered[i].round] =
                bc_listener.delivered[i].value

=============================================================================
